---- MODULE Spec2Model ----
(***************************************************************************)
(* Model of cfs-config-util: the layer reconciliation of a CFS             *)
(* configuration (cfs_config_util/cfs.py), the layer matcher with its URL  *)
(* parsing, and the per-candidate loop of update-configs                   *)
(* (cfs_config_util/update_configs.py).                                    *)
(*                                                                         *)
(* A Python str is a sequence of one-character strings, so that the code's *)
(* parsing, slicing and formatting are computed and not assumed; None is   *)
(* the one-element sequence None, which no str equals.                     *)
(***************************************************************************)
EXTENDS Integers, Sequences, FiniteSets, TLC

VARIABLES
    layers,        \* CFSConfiguration.layers
    changed,       \* CFSConfiguration.changed
    old_layers,    \* history: self.layers when the last ensure_layer call began
    old_changed,   \* history: self.changed when the last ensure_layer call began
    layer,         \* history: the `layer` argument of the last ensure_layer call
    state,         \* history: the `state` argument of the last ensure_layer call
    repeat,        \* history: the last call had the arguments of the call before it
    modified,      \* history: some ensure_layer call so far left other layers than it found
    pc,            \* "loaded" after construction, "ensured" after an ensure_layer call
    self_layer,    \* matcher: the layer matches() is called on
    other_layer,   \* matcher: the argument of matches()
    result,        \* matcher: the value matches() returned
    mpc,           \* matcher: "args" before the call, "returned" after it
    args,          \* update-configs: the parsed command-line arguments
    env,           \* update-configs: what the product catalog, VCS, CFS and clock answer
    base_configs,  \* update-configs: the configurations being updated
    cand_layers,   \* update-configs: the list `layers` construct_layers returned
    config_idx,    \* update-configs: position of `for base_config in base_configs`
    layer_idx,     \* update-configs: position of `for layer in layers`
    unmodified_configs,    \* update-configs: positions of the unchanged configurations
    updated_cfs_configs,   \* update-configs: the configurations CFS returned on saving
    updated_file_configs,  \* update-configs: positions of the configurations saved to files
    failed,        \* update-configs: positions of the configurations that failed to save
    loaded,        \* history: base_configs as they were fetched
    applied,       \* history: per configuration, the layers passed to ensure_layer so far
    bpc,           \* update-configs: "start", "loop", "report", "returned", "exit1", "raised"
    entry,         \* the entry point of the run
    succeeded,     \* ensure_product_layer: names of the configurations saved
    saves,         \* history: the save calls made, with the configuration's position,
                   \*   its changed flag at the call and whether the call succeeded
    requests,      \* history: the services the run has made a request to
    component_ids, \* the CFS components the run updates and waits for
    failed_components, \* the components whose update failed
    errors,        \* history: the kinds of failure the run has met
    calls,         \* history: the updates of CFS components and the waits the run
                   \*   has called, in the order of the calls
    wait_component_ids,   \* wait: the components to wait for
    cfs_components,       \* wait: what CFS answers for each component now
    components_by_status, \* wait: status -> the components seen in that status
    disabled_components,  \* wait: the components found disabled by the first query
    error_components,     \* wait: the components the first query could not get
    queried,              \* history: the components the latest round queried
    observed,             \* history: the latest answer for each component
    wpc                   \* wait: "off", "start", "loop", "returned", "raised"

recVars == <<layers, changed, old_layers, old_changed, layer, state, repeat, modified, pc>>
matchVars == <<self_layer, other_layer, result, mpc>>
batchVars == <<args, env, base_configs, cand_layers, config_idx, layer_idx,
               unmodified_configs, updated_cfs_configs, updated_file_configs,
               failed, loaded, applied, bpc, entry, succeeded, saves, requests,
               component_ids, failed_components, errors, calls>>
waitVars == <<wait_component_ids, cfs_components, components_by_status,
              disabled_components, error_components, queried, observed, wpc>>
vars == <<layers, changed, old_layers, old_changed, layer, state, repeat, modified, pc,
          self_layer, other_layer, result, mpc,
          args, env, base_configs, cand_layers, config_idx, layer_idx,
          unmodified_configs, updated_cfs_configs, updated_file_configs,
          failed, loaded, applied, bpc, entry, succeeded, saves, requests,
          component_ids, failed_components, errors, calls,
          wait_component_ids, cfs_components, components_by_status,
          disabled_components, error_components, queried, observed, wpc>>

\* Bound on the number of layers of a configuration.
MaxLayers == 3
\* Bound on the number of --playbook options of an update-configs run.
MaxPlaybooks == 2
\* Bound on the number of configurations a --base-query finds.
MaxConfigs == 2

None == <<"None">>

\* Python truthiness of an optional str: None and '' are false.
Truthy(v) == v /= None /\ v /= <<>>

PRESENT == "present"
ABSENT == "absent"
LayerState == {PRESENT, ABSENT}

----------------------------------------------------------------------------
(* urllib.parse.urlparse, as called by CFSConfigurationLayer.repo_path.    *)

ascii_lowercase ==
    <<"a","b","c","d","e","f","g","h","i","j","k","l","m",
      "n","o","p","q","r","s","t","u","v","w","x","y","z">>
ascii_uppercase ==
    <<"A","B","C","D","E","F","G","H","I","J","K","L","M",
      "N","O","P","Q","R","S","T","U","V","W","X","Y","Z">>

Range(s) == {s[i] : i \in DOMAIN s}

isalpha(c) == c \in Range(ascii_lowercase) \cup Range(ascii_uppercase)

scheme_chars ==
    Range(ascii_lowercase) \cup Range(ascii_uppercase)
        \cup {"0","1","2","3","4","5","6","7","8","9","+","-","."}

lower_char(c) ==
    IF c \in Range(ascii_uppercase)
    THEN ascii_lowercase[CHOOSE k \in DOMAIN ascii_uppercase : ascii_uppercase[k] = c]
    ELSE c

lower(s) == [i \in DOMAIN s |-> lower_char(s[i])]

\* str.find(c, start) with 1-based positions; 0 when c does not occur.
find(s, c, start) ==
    IF \E i \in start..Len(s) : s[i] = c
    THEN CHOOSE i \in start..Len(s) : s[i] = c /\ \A j \in start..(i - 1) : s[j] /= c
    ELSE 0

\* str.rfind(c) with 1-based positions; 0 when c does not occur.
rfind(s, c) ==
    IF \E i \in 1..Len(s) : s[i] = c
    THEN CHOOSE i \in 1..Len(s) : s[i] = c /\ \A j \in (i + 1)..Len(s) : s[j] /= c
    ELSE 0

\* s[a-1:b-1] of Python for 1-based a and exclusive 1-based end b.
slice(s, a, b) == IF b <= a THEN <<>> ELSE SubSeq(s, a, b - 1)

uses_params ==
    { <<>>, <<"f","t","p">>, <<"h","d","l">>,
      <<"p","r","o","s","p","e","r","o">>, <<"h","t","t","p">>,
      <<"i","m","a","p">>, <<"h","t","t","p","s">>, <<"s","h","t","t","p">>,
      <<"r","t","s","p">>, <<"r","t","s","p","s">>, <<"r","t","s","p","u">>,
      <<"s","i","p">>, <<"s","i","p","s">>, <<"m","m","s">>,
      <<"s","f","t","p">>, <<"t","e","l">> }

\* url.split(c, 1) where c occurs in url, else (url, ''): the parts before and
\* after the first c.
split_once(url, c) ==
    IF find(url, c, 1) > 0
    THEN [head |-> slice(url, 1, find(url, c, 1)),
          tail |-> slice(url, find(url, c, 1) + 1, Len(url) + 1)]
    ELSE [head |-> url, tail |-> <<>>]

\* The end of the netloc in _splitnetloc(url, 2): the first of '/', '?', '#'
\* after the two slashes, else the end of url.
netloc_end(url) ==
    IF \E i \in 3..Len(url) : url[i] \in {"/", "?", "#"}
    THEN CHOOSE i \in 3..Len(url) :
            /\ url[i] \in {"/", "?", "#"}
            /\ \A j \in 3..(i - 1) : url[j] \notin {"/", "?", "#"}
    ELSE Len(url) + 1

\* urlsplit, first step: `i = url.find(':')` and the scheme before it.
urlsplit_scheme(url) ==
    IF /\ find(url, ":", 1) > 1
       /\ isalpha(url[1])
       /\ \A k \in 1..(find(url, ":", 1) - 1) : url[k] \in scheme_chars
    THEN [scheme |-> lower(slice(url, 1, find(url, ":", 1))),
          url |-> slice(url, find(url, ":", 1) + 1, Len(url) + 1)]
    ELSE [scheme |-> <<>>, url |-> url]

\* urlsplit, second step: `if url[:2] == '//': netloc, url = _splitnetloc(url, 2)`.
urlsplit_netloc(r) ==
    IF Len(r.url) >= 2 /\ r.url[1] = "/" /\ r.url[2] = "/"
    THEN [scheme |-> r.scheme,
          netloc |-> slice(r.url, 3, netloc_end(r.url)),
          url |-> slice(r.url, netloc_end(r.url), Len(r.url) + 1)]
    ELSE [scheme |-> r.scheme, netloc |-> <<>>, url |-> r.url]

\* urlsplit, third step: `if '#' in url: url, fragment = url.split('#', 1)`.
urlsplit_fragment(r) ==
    [scheme |-> r.scheme, netloc |-> r.netloc,
     url |-> split_once(r.url, "#").head, fragment |-> split_once(r.url, "#").tail]

\* urlsplit, last step: `if '?' in url: url, query = url.split('?', 1)`.
urlsplit_query(r) ==
    [scheme |-> r.scheme, netloc |-> r.netloc,
     path |-> split_once(r.url, "?").head, query |-> split_once(r.url, "?").tail,
     fragment |-> r.fragment]

urlsplit(url) ==
    urlsplit_query(urlsplit_fragment(urlsplit_netloc(urlsplit_scheme(url))))

\* The position of the ';' at which _splitparams cuts, 0 for none.
splitparams_at(url) ==
    IF find(url, "/", 1) > 0
    THEN find(url, ";", rfind(url, "/"))
    ELSE find(url, ";", 1)

splitparams(url) ==
    IF splitparams_at(url) = 0
    THEN [url |-> url, params |-> <<>>]
    ELSE [url |-> slice(url, 1, splitparams_at(url)),
          params |-> slice(url, splitparams_at(url) + 1, Len(url) + 1)]

\* urlparse, after urlsplit: `if scheme in uses_params and ';' in url`.
urlparse_params(s) ==
    IF s.scheme \in uses_params /\ find(s.path, ";", 1) > 0
    THEN [scheme |-> s.scheme, netloc |-> s.netloc,
          path |-> splitparams(s.path).url, params |-> splitparams(s.path).params,
          query |-> s.query, fragment |-> s.fragment]
    ELSE [scheme |-> s.scheme, netloc |-> s.netloc, path |-> s.path,
          params |-> <<>>, query |-> s.query, fragment |-> s.fragment]

urlparse(url) == urlparse_params(urlsplit(url))

uses_netloc ==
    { <<>>, <<"f","t","p">>, <<"h","t","t","p">>, <<"g","o","p","h","e","r">>,
      <<"n","n","t","p">>, <<"t","e","l","n","e","t">>, <<"i","m","a","p">>,
      <<"w","a","i","s">>, <<"f","i","l","e">>, <<"m","m","s">>,
      <<"h","t","t","p","s">>, <<"s","h","t","t","p">>, <<"s","n","e","w","s">>,
      <<"p","r","o","s","p","e","r","o">>, <<"r","t","s","p">>,
      <<"r","t","s","p","u">>, <<"r","s","y","n","c">>, <<"s","v","n">>,
      <<"s","v","n","+","s","s","h">>, <<"s","f","t","p">>, <<"n","f","s">>,
      <<"g","i","t">>, <<"g","i","t","+","s","s","h">>, <<"w","s">>,
      <<"w","s","s">>, <<"r","t","s","p","s">> }

\* urlunparse, first step: `if params: url = "%s;%s" % (url, params)`.
urlunparse_params(p) ==
    IF p.params /= <<>> THEN p.path \o <<";">> \o p.params ELSE p.path

\* urlunsplit, first step: the netloc is put before the path, after '//'.
urlunsplit_netloc(scheme, netloc, url) ==
    IF \/ netloc /= <<>>
       \/ /\ scheme /= <<>>
          /\ scheme \in uses_netloc
          /\ ~(Len(url) >= 2 /\ url[1] = "/" /\ url[2] = "/")
    THEN <<"/", "/">> \o netloc
            \o (IF url /= <<>> /\ url[1] /= "/" THEN <<"/">> \o url ELSE url)
    ELSE url

\* urlunsplit, second step: `if scheme: url = scheme + ':' + url`.
urlunsplit_scheme(scheme, url) ==
    IF scheme /= <<>> THEN scheme \o <<":">> \o url ELSE url

\* urlunsplit, last steps: the query after '?' and the fragment after '#'.
urlunsplit_tail(url, query, fragment) ==
    url \o (IF query /= <<>> THEN <<"?">> \o query ELSE <<>>)
        \o (IF fragment /= <<>> THEN <<"#">> \o fragment ELSE <<>>)

urlunparse(p) ==
    urlunsplit_tail(
        urlunsplit_scheme(p.scheme, urlunsplit_netloc(p.scheme, p.netloc, urlunparse_params(p))),
        p.query, p.fragment)

----------------------------------------------------------------------------
(* The string functions of the layer constructors.                         *)

\* os.path.basename(p): what follows the last '/'.
basename(p) == slice(p, rfind(p, "/") + 1, Len(p) + 1)

\* s.endswith(suffix)
endswith(s, suffix) ==
    /\ Len(s) >= Len(suffix)
    /\ SubSeq(s, Len(s) - Len(suffix) + 1, Len(s)) = suffix

\* strip_suffix of from_clone_url: s[:-len(suffix)] when s ends with suffix.
strip_suffix(s, suffix) ==
    IF endswith(s, suffix) THEN slice(s, 1, Len(s) - Len(suffix) + 1) ELSE s

\* os.path.splitext(p)[0]: p up to its last '.', when that dot comes after the
\* last '/' and after a character of the file name that is not a dot.
splitext_root(p) ==
    IF /\ rfind(p, ".") > rfind(p, "/")
       /\ \E k \in (rfind(p, "/") + 1)..(rfind(p, ".") - 1) : p[k] /= "."
    THEN slice(p, 1, rfind(p, "."))
    ELSE p

\* s[:n]
prefix(s, n) == IF Len(s) <= n THEN s ELSE SubSeq(s, 1, n)

\* '-'.join(components)
RECURSIVE join(_)
join(components) ==
    IF Len(components) = 0 THEN <<>>
    ELSE IF Len(components) = 1 THEN components[1]
    ELSE components[1] \o <<"-">> \o join(Tail(components))

----------------------------------------------------------------------------
(* The clone URLs the model draws its layers from.                         *)

UrlA == <<"h","t","t","p","s",":","/","/","h","/","a">>    \* https://h/a
UrlA2 == <<"s","s","h",":","/","/","g","/","a">>    \* ssh://g/a
UrlB == <<"h","t","t","p","s",":","/","/","h","/","b">>    \* https://h/b
UrlUpper == <<"h","t","t","p","s",":","/","/","h","/","A">>    \* https://h/A
UrlSlash == <<"h","t","t","p","s",":","/","/","h","/","a","/">>    \* https://h/a/
UrlGit == <<"h","t","t","p","s",":","/","/","h","/","a",".","g","i","t">>    \* https://h/a.git
UrlBare == <<"/","a">>    \* /a
UrlQuery == <<"h","t","t","p","s",":","/","/","h","/","a","?","q">>    \* https://h/a?q
UrlParamHttps == <<"h","t","t","p","s",":","/","/","h","/","a",";","p">>    \* https://h/a;p
UrlParamSsh == <<"s","s","h",":","/","/","h","/","a",";","p">>    \* ssh://h/a;p
UrlScp == <<"g","i","t","@","h",":","a">>    \* git@h:a

NameA == <<"a">>    \* a
PlaybookX == <<"x",".","y","m","l">>    \* x.yml
PlaybookXUpper == <<"X",".","y","m","l">>    \* X.yml
PlaybookY == <<"y",".","y","m","l">>    \* y.yml
Commit111 == <<"1","1","1">>    \* 111
Commit222 == <<"2","2","2">>    \* 222
BranchMain == <<"m","a","i","n">>    \* main
NameOld == <<"o","l","d">>    \* old
CommitLong == <<"0","1","2","3","4","5","6","7","8","9">>    \* 0123456789
Timestamp == <<"2","0","2","2","0","1","0","1","T","0","0","0","0","0","0">>    \* 20220101T000000
ProductP == <<"p">>    \* p
ProductPV == <<"p",":","1">>    \* p:1
UrlRepo == <<"h","t","t","p","s",":","/","/","h","/","a","-","c","o","n","f","i","g","-","m","a","n","a","g","e","m","e","n","t",".","g","i","t">>    \* https://h/a-config-management.git
UrlCatalog == <<"h","t","t","p","s",":","/","/","v","/","a","-","c","o","n","f","i","g","-","m","a","n","a","g","e","m","e","n","t",".","g","i","t">>    \* https://v/a-config-management.git
API_GW_HOST == <<"a","p","i","-","g","w","-","s","e","r","v","i","c","e","-","n","m","n",".","l","o","c","a","l">>    \* api-gw-service-nmn.local
ConfigC == <<"c">>    \* c
FileF == <<"f">>    \* f
QueryQ == <<"q">>    \* q
SuffixS == <<".","s">>    \* .s
DotGit == <<".","g","i","t">>    \* .git
ConfigManagement == <<"-","c","o","n","f","i","g","-","m","a","n","a","g","e","m","e","n","t">>    \* -config-management
Site == <<"s","i","t","e">>    \* site

\* The clone URLs of the reconciliation runs: two with the same path under
\* different schemes and hosts, one with another path.
CloneUrls == {UrlA, UrlA2, UrlB}

\* The clone URLs of the matcher runs.
MatchCloneUrls ==
    {UrlA, UrlA2, UrlB, UrlUpper, UrlSlash, UrlGit, UrlBare, UrlQuery,
     UrlParamHttps, UrlParamSsh, UrlScp}

\* The clone URL from_product_catalog builds for a product: the product's
\* clone URL with API_GW_HOST as its netloc.
catalog_clone_url(product_clone_url) ==
    urlunparse([urlparse(product_clone_url) EXCEPT !.netloc = API_GW_HOST])

\* The clone URLs of the batch runs.
BatchCloneUrls == {UrlRepo, UrlB, catalog_clone_url(UrlCatalog)}

\* urlparse of every clone URL of the model, computed once (urlsplit is wrapped
\* in functools.lru_cache).
ParsedUrls == [url \in MatchCloneUrls \cup BatchCloneUrls |-> urlparse(url)]

----------------------------------------------------------------------------
(* class CFSConfigurationLayer                                             *)

\* A mapping from the properties in CFS response data to attributes of the class.
CFS_PROPS_TO_ATTRS ==
    [cloneUrl |-> "clone_url", commit |-> "commit", branch |-> "branch",
     name |-> "name", playbook |-> "playbook"]

\* __init__: the constructor raises ValueError when neither commit nor branch is given.
init_raises(clone_url, name, playbook, commit, branch) ==
    ~(Truthy(commit) \/ Truthy(branch))

CFSConfigurationLayer(clone_url, name, playbook, commit, branch) ==
    [clone_url |-> clone_url, name |-> name, playbook |-> playbook,
     commit |-> commit, branch |-> branch]

\* The path portion of the clone URL.
repo_path(self) == ParsedUrls[self.clone_url].path

\* isinstance(x, CFSConfigurationLayer): the objects of the class are the records
\* with its five attributes.
isinstance_layer(x) == DOMAIN x = {"clone_url", "name", "playbook", "commit", "branch"}

\* Mutant of matches: the whole clone URL is compared instead of its path.
matches_clone_url(self, other) ==
    IF ~isinstance_layer(other)
    THEN FALSE
    ELSE self.clone_url = other.clone_url /\ self.playbook = other.playbook

matches(self, other) ==
    IF ~isinstance_layer(other)
    THEN FALSE
    ELSE repo_path(self) = repo_path(other) /\ self.playbook = other.playbook

\* Mutant of get_updated_values: the name is left out of the comparison.
get_updated_values_no_name(self, new_layer) ==
    LET props == DOMAIN CFS_PROPS_TO_ATTRS \ {"name"}
        updated == {cfs_prop \in props :
                       self[CFS_PROPS_TO_ATTRS[cfs_prop]]
                           /= new_layer[CFS_PROPS_TO_ATTRS[cfs_prop]]}
    IN  [cfs_prop \in updated |->
            <<self[CFS_PROPS_TO_ATTRS[cfs_prop]], new_layer[CFS_PROPS_TO_ATTRS[cfs_prop]]>>]

\* A dict from the names of the updated properties to the pair (old value, new value).
get_updated_values(self, new_layer) ==
    LET updated == {cfs_prop \in DOMAIN CFS_PROPS_TO_ATTRS :
                       self[CFS_PROPS_TO_ATTRS[cfs_prop]]
                           /= new_layer[CFS_PROPS_TO_ATTRS[cfs_prop]]}
    IN  [cfs_prop \in updated |->
            <<self[CFS_PROPS_TO_ATTRS[cfs_prop]], new_layer[CFS_PROPS_TO_ATTRS[cfs_prop]]>>]

----------------------------------------------------------------------------
(* CFSConfiguration.ensure_layer                                           *)

\* Mutant of ensure_layer_body: with ABSENT every layer of the candidate's
\* repository is dropped, whatever its playbook.
ensure_layer_body_absent_by_repo(acc, existing_layer, new_layer, st) ==
    IF matches(new_layer, existing_layer)
    THEN IF st = ABSENT
         THEN [acc EXCEPT !.found_match = TRUE, !.changed = TRUE]
         ELSE LET updated_props == get_updated_values(existing_layer, new_layer)
              IN  [new_layers |-> Append(acc.new_layers, new_layer),
                   found_match |-> TRUE,
                   changed |-> IF DOMAIN updated_props /= {} THEN TRUE ELSE acc.changed]
    ELSE IF st = ABSENT /\ repo_path(new_layer) = repo_path(existing_layer)
    THEN [acc EXCEPT !.changed = TRUE]
    ELSE [acc EXCEPT !.new_layers = Append(acc.new_layers, existing_layer)]

\* Mutant of ensure_layer_body: with PRESENT a matching layer is kept and the
\* candidate is put after it.
ensure_layer_body_keeps_old(acc, existing_layer, new_layer, st) ==
    IF matches(new_layer, existing_layer)
    THEN IF st = ABSENT
         THEN [acc EXCEPT !.found_match = TRUE, !.changed = TRUE]
         ELSE [new_layers |-> Append(Append(acc.new_layers, existing_layer), new_layer),
               found_match |-> TRUE,
               changed |-> TRUE]
    ELSE [acc EXCEPT !.new_layers = Append(acc.new_layers, existing_layer)]

\* Mutant of ensure_layer_body: a matched layer is dropped from its place and
\* the match is not recorded, so that the candidate is added at the end.
ensure_layer_body_moves(acc, existing_layer, new_layer, st) ==
    IF matches(new_layer, existing_layer)
    THEN IF st = ABSENT
         THEN [acc EXCEPT !.found_match = TRUE, !.changed = TRUE]
         ELSE acc
    ELSE [acc EXCEPT !.new_layers = Append(acc.new_layers, existing_layer)]

\* Mutant of ensure_layer_body: with ABSENT only the first matching layer is
\* skipped, later matching layers are kept.
ensure_layer_body_first_only(acc, existing_layer, new_layer, st) ==
    IF matches(new_layer, existing_layer)
    THEN IF st = ABSENT
         THEN IF acc.found_match
              THEN [acc EXCEPT !.new_layers = Append(acc.new_layers, existing_layer)]
              ELSE [acc EXCEPT !.found_match = TRUE, !.changed = TRUE]
         ELSE LET updated_props == get_updated_values(existing_layer, new_layer)
              IN  [new_layers |-> Append(acc.new_layers, new_layer),
                   found_match |-> TRUE,
                   changed |-> IF DOMAIN updated_props /= {} THEN TRUE ELSE acc.changed]
    ELSE [acc EXCEPT !.new_layers = Append(acc.new_layers, existing_layer)]

\* Mutant of ensure_layer_body: with PRESENT only the first matching layer is
\* replaced, later matching layers are left as they are.
ensure_layer_body_one_update(acc, existing_layer, new_layer, st) ==
    IF matches(new_layer, existing_layer)
    THEN IF st = ABSENT
         THEN [acc EXCEPT !.found_match = TRUE, !.changed = TRUE]
         ELSE IF acc.found_match
              THEN [acc EXCEPT !.new_layers = Append(acc.new_layers, existing_layer)]
              ELSE LET updated_props == get_updated_values(existing_layer, new_layer)
                   IN  [new_layers |-> Append(acc.new_layers, new_layer),
                        found_match |-> TRUE,
                        changed |-> IF DOMAIN updated_props /= {}
                                    THEN TRUE ELSE acc.changed]
    ELSE [acc EXCEPT !.new_layers = Append(acc.new_layers, existing_layer)]

\* Mutant of ensure_layer_body: an update merges attribute by attribute, keeping
\* the existing value of an attribute the candidate leaves None.
ensure_layer_body_merge(acc, existing_layer, new_layer, st) ==
    IF matches(new_layer, existing_layer)
    THEN IF st = ABSENT
         THEN [acc EXCEPT !.found_match = TRUE, !.changed = TRUE]
         ELSE LET updated_props == get_updated_values(existing_layer, new_layer)
                  merged == [a \in DOMAIN new_layer |->
                                IF new_layer[a] = None /\ a = "name"
                                THEN existing_layer[a] ELSE new_layer[a]]
              IN  [new_layers |-> Append(acc.new_layers, merged),
                   found_match |-> TRUE,
                   changed |-> IF DOMAIN updated_props /= {} THEN TRUE ELSE acc.changed]
    ELSE [acc EXCEPT !.new_layers = Append(acc.new_layers, existing_layer)]

\* Mutant of ensure_layer_body: removing a matching layer does not mark the
\* configuration changed.
ensure_layer_body_silent_removal(acc, existing_layer, new_layer, st) ==
    IF matches(new_layer, existing_layer)
    THEN IF st = ABSENT
         THEN [acc EXCEPT !.found_match = TRUE]
         ELSE LET updated_props == get_updated_values(existing_layer, new_layer)
              IN  [new_layers |-> Append(acc.new_layers, new_layer),
                   found_match |-> TRUE,
                   changed |-> IF DOMAIN updated_props /= {} THEN TRUE ELSE acc.changed]
    ELSE [acc EXCEPT !.new_layers = Append(acc.new_layers, existing_layer)]

\* One iteration of `for existing_layer in self.layers`; acc holds the locals
\* new_layers and found_match and the attribute self.changed.
ensure_layer_body(acc, existing_layer, new_layer, st) ==
    IF matches(new_layer, existing_layer)
    THEN IF st = ABSENT
         THEN \* Skip adding this layer to new_layers
              [acc EXCEPT !.found_match = TRUE, !.changed = TRUE]
         ELSE LET updated_props == get_updated_values(existing_layer, new_layer)
              IN  [new_layers |-> Append(acc.new_layers, new_layer),
                   found_match |-> TRUE,
                   changed |-> IF DOMAIN updated_props /= {} THEN TRUE ELSE acc.changed]
    ELSE \* This layer doesn't match, so leave it untouched
         [acc EXCEPT !.new_layers = Append(acc.new_layers, existing_layer)]

RECURSIVE ensure_layer_loop(_, _, _, _)
ensure_layer_loop(acc, rest, new_layer, st) ==
    IF rest = <<>>
    THEN acc
    ELSE ensure_layer_loop(ensure_layer_body(acc, Head(rest), new_layer, st),
                           Tail(rest), new_layer, st)

\* Mutant of ensure_layer_finish: with PRESENT the candidate is added at the end
\* whether or not a layer matched.
ensure_layer_finish_always_append(acc, new_layer, st) ==
    IF st = PRESENT
    THEN [layers |-> Append(acc.new_layers, new_layer), changed |-> TRUE]
    ELSE [layers |-> acc.new_layers, changed |-> acc.changed]

\* Mutant of ensure_layer_finish: a candidate without a match is put first.
ensure_layer_finish_prepend(acc, new_layer, st) ==
    IF ~acc.found_match /\ st = PRESENT
    THEN [layers |-> <<new_layer>> \o acc.new_layers, changed |-> TRUE]
    ELSE [layers |-> acc.new_layers, changed |-> acc.changed]

\* Mutant of ensure_layer_finish: a miss marks the configuration changed
\* whatever the requested state.
ensure_layer_finish_miss_changes(acc, new_layer, st) ==
    IF ~acc.found_match
    THEN [layers |-> IF st = PRESENT THEN Append(acc.new_layers, new_layer)
                     ELSE acc.new_layers,
          changed |-> TRUE]
    ELSE [layers |-> acc.new_layers, changed |-> acc.changed]

\* The statements after the loop: `if not found_match: ...; self.layers = new_layers`.
ensure_layer_finish(acc, new_layer, st) ==
    IF ~acc.found_match /\ st = PRESENT
    THEN [layers |-> Append(acc.new_layers, new_layer), changed |-> TRUE]
    ELSE [layers |-> acc.new_layers, changed |-> acc.changed]

\* The attributes layers and changed of the configuration after the call.
ensure_layer(self_layers, self_changed, new_layer, st) ==
    ensure_layer_finish(
        ensure_layer_loop([new_layers |-> <<>>, found_match |-> FALSE,
                           changed |-> self_changed],
                          self_layers, new_layer, st),
        new_layer, st)

----------------------------------------------------------------------------
(* The constructors of CFSConfigurationLayer, branch resolution and the    *)
(* request payload.                                                        *)

\* construct_name: '-'.join of the product or repository, the playbook without
\* its extension ('site' without a playbook), the branch or else the first
\* seven characters of the commit, and the time of the call.
construct_name(product_or_repo, playbook, commit, branch, now) ==
    join(<< product_or_repo,
            IF Truthy(playbook) THEN splitext_root(playbook) ELSE Site,
            IF Truthy(branch) THEN branch ELSE prefix(commit, 7),
            now >>)

\* The commit from_product_catalog passes on: the product's own when neither a
\* commit nor a branch was given.
product_commit(product, commit, branch) ==
    IF ~(Truthy(commit) \/ Truthy(branch)) THEN product.commit ELSE commit

\* from_product_catalog. `product` is what ProductCatalog().get_product answers:
\* error for a ProductCatalogError, else the product's clone_url and commit.
\* The result is the layer, or error for a CFSConfigurationError.
from_product_catalog(product, product_name, product_version, name, playbook, commit, branch, now) ==
    IF product.error \/ ~Truthy(product.clone_url)
    THEN [error |-> TRUE, layer |-> None]
    ELSE IF ~(Truthy(commit) \/ Truthy(branch)) /\ ~Truthy(product.commit)
    THEN [error |-> TRUE, layer |-> None]
    ELSE [error |-> FALSE,
          layer |-> CFSConfigurationLayer(
              catalog_clone_url(product.clone_url),
              IF Truthy(name) THEN name
              ELSE construct_name(product_name, playbook,
                                  product_commit(product, commit, branch), branch, now),
              playbook, product_commit(product, commit, branch), branch)]

\* from_clone_url: without a name, the layer is named after the last component
\* of the URL's path, less '.git' and then '-config-management'.
from_clone_url(clone_url, name, playbook, commit, branch, now) ==
    CFSConfigurationLayer(
        clone_url,
        IF Truthy(name) THEN name
        ELSE construct_name(
                 strip_suffix(strip_suffix(basename(ParsedUrls[clone_url].path), DotGit),
                              ConfigManagement),
                 playbook, commit, branch, now),
        playbook, commit, branch)

\* from_cfs: the attribute of each property of CFS_PROPS_TO_ATTRS is data.get(property).
from_cfs(data) ==
    [attr \in {CFS_PROPS_TO_ATTRS[p] : p \in DOMAIN CFS_PROPS_TO_ATTRS} |->
        IF (CHOOSE p \in DOMAIN CFS_PROPS_TO_ATTRS : CFS_PROPS_TO_ATTRS[p] = attr)
                \in DOMAIN data
        THEN data[CHOOSE p \in DOMAIN CFS_PROPS_TO_ATTRS : CFS_PROPS_TO_ATTRS[p] = attr]
        ELSE None]

\* Mutant of req_payload: the playbook is left out.
req_payload_without_playbook(self) ==
    [p \in {q \in DOMAIN CFS_PROPS_TO_ATTRS :
                q /= "playbook" /\ Truthy(self[CFS_PROPS_TO_ATTRS[q]])} |->
        self[CFS_PROPS_TO_ATTRS[p]]]

\* CFSConfigurationLayer.req_payload: the properties whose attribute is truthy.
req_payload(self) ==
    [p \in {q \in DOMAIN CFS_PROPS_TO_ATTRS : Truthy(self[CFS_PROPS_TO_ATTRS[q]])} |->
        self[CFS_PROPS_TO_ATTRS[p]]]

\* Mutant of resolve_branch_to_commit_hash: the branch is kept next to the
\* commit it resolved to.
resolve_branch_to_commit_hash_keeps_branch(self, refs) ==
    IF ~Truthy(self.branch) THEN [error |-> FALSE, layer |-> self]
    ELSE IF refs.error THEN [error |-> TRUE, layer |-> self]
    ELSE IF ~Truthy(refs.commit)
    THEN [error |-> TRUE, layer |-> [self EXCEPT !.commit = refs.commit]]
    ELSE [error |-> FALSE, layer |-> [self EXCEPT !.commit = refs.commit]]

\* resolve_branch_to_commit_hash. `refs` is what the VCS answers for the branch:
\* error for a VCSError, else the commit hash, None for no such branch. The
\* result is the layer as the call leaves it, and error for a
\* CFSConfigurationError.
resolve_branch_to_commit_hash(self, refs) ==
    IF ~Truthy(self.branch) THEN [error |-> FALSE, layer |-> self]
    ELSE IF refs.error THEN [error |-> TRUE, layer |-> self]
    ELSE IF ~Truthy(refs.commit)
    THEN [error |-> TRUE, layer |-> [self EXCEPT !.commit = refs.commit]]
    ELSE [error |-> FALSE, layer |-> [self EXCEPT !.commit = refs.commit, !.branch = None]]

----------------------------------------------------------------------------
(* class CFSConfiguration: construction and saving.                        *)

\* __init__: the name and the layers of the data, changed = False.
CFSConfiguration(data) ==
    [name |-> IF "name" \in DOMAIN data THEN data.name ELSE None,
     layers |-> IF "layers" \in DOMAIN data
                THEN [k \in DOMAIN data.layers |-> from_cfs(data.layers[k])]
                ELSE <<>>,
     changed |-> FALSE]

\* CFSConfiguration.req_payload: just the layers key.
configuration_req_payload(self) ==
    [layers |-> [k \in DOMAIN self.layers |-> req_payload(self.layers[k])]]

\* save_to_cfs(name): PUT of the payload under the name; CFS answers with the
\* configuration it stored, or the request fails (ok is false).
save_to_cfs(self, name, ok) ==
    IF ok
    THEN [error |-> FALSE, returned |-> "config",
          config |-> CFSConfiguration(
                         [name |-> IF Truthy(name) THEN name ELSE self.name,
                          layers |-> configuration_req_payload(self).layers])]
    ELSE [error |-> TRUE, returned |-> "none", config |-> CFSConfiguration(<<>>)]

\* save_to_file(file_path): returns None, or fails to write (ok is false).
save_to_file(self, file_path, ok) ==
    [error |-> ~ok, returned |-> "none", config |-> CFSConfiguration(<<>>)]

----------------------------------------------------------------------------
(* update_configs.py: the functions of update-configs. The option          *)
(* --playbook has argparse's append action: args.playbooks is None without *)
(* the option and never an empty list, and the model writes that None as   *)
(* the empty sequence.                                                     *)

\* parser.base_given: any of --base-config, --base-file, --base-query.
base_given(a) ==
    Truthy(a.base_config) \/ Truthy(a.base_file) \/ Truthy(a.base_query)

\* get_cfs_configurations. `cfs` is what CFS (or the file) answers: error for
\* an APIError, OSError or JSONDecodeError, else the data of the
\* configurations. The result is the configurations, or error for a
\* CFSConfigurationError.
get_cfs_configurations(a, cfs) ==
    IF cfs.error THEN [error |-> TRUE, configs |-> <<>>]
    ELSE IF a.base_config /= None
    THEN [error |-> FALSE, configs |-> <<CFSConfiguration(cfs.data[1])>>]
    ELSE IF a.base_query /= None
    THEN [error |-> cfs.data = <<>>,
          configs |-> [k \in DOMAIN cfs.data |-> CFSConfiguration(cfs.data[k])]]
    ELSE [error |-> FALSE, configs |-> <<CFSConfiguration(cfs.data[1])>>]

\* The try block of update_configurations: the base configurations, or one
\* empty configuration when no base is given.
get_base_configs(a, cfs) ==
    IF base_given(a) THEN get_cfs_configurations(a, cfs)
    ELSE [error |-> FALSE, configs |-> <<CFSConfiguration(<<>>)>>]

\* The services asked by the try block of update_configurations: CFS for a
\* named base, HSM and CFS for a queried base, and the product catalog for a
\* product once the base is there.
start_requests(a, e) ==
    (IF Truthy(a.base_config) \/ Truthy(a.base_query) THEN {"cfs"} ELSE {})
    \cup (IF Truthy(a.base_query) THEN {"hsm"} ELSE {})
    \cup (IF Truthy(a.product) /\ ~get_base_configs(a, e.cfs).error
          THEN {"catalog"} ELSE {})

\* args.product.split(':', maxsplit=1) when it holds a ':'.
product_name(product) ==
    IF find(product, ":", 1) > 0 THEN split_once(product, ":").head ELSE product

product_version(product) ==
    IF find(product, ":", 1) > 0 THEN split_once(product, ":").tail ELSE None

\* The body of the loop of construct_layers: the layer of one playbook.
construct_layer(a, e, playbook) ==
    IF Truthy(a.product)
    THEN from_product_catalog(e.product, product_name(a.product),
                              product_version(a.product), a.layer_name, playbook,
                              a.git_commit, a.git_branch, e.now)
    ELSE [error |-> FALSE,
          layer |-> from_clone_url(a.clone_url, a.layer_name, playbook,
                                   a.git_commit, a.git_branch, e.now)]

\* Mutant of construct_layers: the layers are built from the last playbook to
\* the first.
construct_layers_reversed(a, e) ==
    LET playbooks == IF a.playbooks = <<>> THEN <<None>> ELSE a.playbooks
    IN  [error |-> \E k \in DOMAIN playbooks : construct_layer(a, e, playbooks[k]).error,
         layers |-> [k \in DOMAIN playbooks |->
                        construct_layer(a, e, playbooks[Len(playbooks) + 1 - k]).layer]]

\* construct_layers: one layer per playbook, in the order of the playbooks; one
\* layer with no playbook when args.playbooks is None.
construct_layers(a, e) ==
    LET playbooks == IF a.playbooks = <<>> THEN <<None>> ELSE a.playbooks
    IN  [error |-> \E k \in DOMAIN playbooks : construct_layer(a, e, playbooks[k]).error,
         layers |-> [k \in DOMAIN playbooks |-> construct_layer(a, e, playbooks[k]).layer]]

\* save_cfs_configuration: where the configuration is saved, by the save
\* options and the kind of base. Backups do not change the result.
save_cfs_configuration(a, cfs_config, ok) ==
    IF a.save
    THEN IF Truthy(a.base_config) \/ Truthy(a.base_query)
         THEN save_to_cfs(cfs_config, None, ok)
         ELSE save_to_file(cfs_config, a.base_file, ok)
    ELSE IF Truthy(a.save_suffix)
    THEN IF Truthy(a.base_config) \/ Truthy(a.base_query)
         THEN save_to_cfs(cfs_config, cfs_config.name \o a.save_suffix, ok)
         ELSE save_to_file(cfs_config, a.base_file \o a.save_suffix, ok)
    ELSE IF Truthy(a.save_to_cfs)
    THEN save_to_cfs(cfs_config, a.save_to_cfs, ok)
    ELSE IF Truthy(a.save_to_file)
    THEN save_to_file(cfs_config, a.save_to_file, ok)
    ELSE [error |-> FALSE, returned |-> "none", config |-> CFSConfiguration(<<>>)]

\* The record of one save call in the history: the position of the
\* configuration, its changed flag at the call, whether the call went
\* through, and the payload it writes (self.req_payload, sent to CFS as JSON
\* or dumped to the file).
save_call(configs, idx, ok) ==
    [config |-> idx, changed |-> configs[idx].changed, ok |-> ok,
     payload |-> configuration_req_payload(configs[idx])]

\* `if args.resolve_branches: layer.resolve_branch_to_commit_hash()`
resolve_if_requested(a, e, new_layer) ==
    IF a.resolve_branches
    THEN resolve_branch_to_commit_hash(new_layer, e.refs)
    ELSE [error |-> FALSE, layer |-> new_layer]

----------------------------------------------------------------------------
(* The values the model draws its inputs from.                             *)

Names == {None, NameA}
Playbooks == {None, PlaybookX}
Commits == {None, Commit111, Commit222}
Branches == {None, BranchMain}

\* Every layer the constructor accepts over these values.
AllLayers ==
    {CFSConfigurationLayer(u, n, p, cb[1], cb[2]) :
        u \in CloneUrls, n \in Names, p \in Playbooks,
        cb \in {x \in Commits \X Branches : ~init_raises(UrlA, None, None, x[1], x[2])}}

BaseLayer == CFSConfigurationLayer(UrlA, None, None, Commit111, None)

\* The layers of the reconciliation runs: BaseLayer and every layer that differs
\* from it in one attribute.
Layers ==
    {l \in AllLayers :
        Cardinality({a \in DOMAIN BaseLayer : l[a] /= BaseLayer[a]}) <= 1}

\* The layers of the matcher runs.
MatchPlaybooks == {None, PlaybookX, PlaybookXUpper}
MatchRevisions == {<<Commit111, None>>, <<None, BranchMain>>, <<Commit111, BranchMain>>}
MatchLayers ==
    {CFSConfigurationLayer(u, n, p, cb[1], cb[2]) :
        u \in MatchCloneUrls, n \in Names, p \in MatchPlaybooks,
        cb \in {x \in MatchRevisions : ~init_raises(UrlA, None, None, x[1], x[2])}}

\* An object that is no CFSConfigurationLayer: the dict of a layer in a CFS response.
RawLayerData == [cloneUrl |-> UrlA, commit |-> Commit111, playbook |-> None]

SeqsUpTo(S, n) == UNION {[1..k -> S] : k \in 0..n}

\* The arguments of the update-configs runs. The parser lets exactly one of
\* --product and --clone-url through, at most one of --git-commit and
\* --git-branch, at most one base option and exactly one save option;
\* check_update_configs_args wants a commit or a branch with --clone-url, a
\* base with --save and --save-suffix, and no --save-to-cfs or --save-to-file
\* with --base-query.
BatchPlaybooks == {PlaybookX, PlaybookY}

RepoArgs ==
    {[product |-> None, clone_url |-> UrlRepo, git_commit |-> r[1], git_branch |-> r[2]] :
        r \in {<<CommitLong, None>>, <<None, BranchMain>>}}
    \cup
    {[product |-> p, clone_url |-> None, git_commit |-> r[1], git_branch |-> r[2]] :
        p \in {ProductP, ProductPV},
        r \in {<<None, None>>, <<CommitLong, None>>, <<None, BranchMain>>}}

NoBaseNoSave ==
    [base_config |-> None, base_file |-> None, base_query |-> None, save |-> FALSE,
     save_suffix |-> None, save_to_cfs |-> None, save_to_file |-> None]

BaseSaveArgs ==
    { [NoBaseNoSave EXCEPT !.save_to_cfs = ConfigC],
      [NoBaseNoSave EXCEPT !.save_to_file = FileF],
      [NoBaseNoSave EXCEPT !.base_config = ConfigC, !.save = TRUE],
      [NoBaseNoSave EXCEPT !.base_file = FileF, !.save_suffix = SuffixS],
      [NoBaseNoSave EXCEPT !.base_query = QueryQ, !.save = TRUE],
      [NoBaseNoSave EXCEPT !.base_query = QueryQ, !.save_suffix = SuffixS] }

\* --no-resolve-branches comes with --git-branch only: without a branch to
\* resolve it changes nothing.
BatchArgs ==
    {a \in {r @@ b @@ [playbooks |-> p, layer_name |-> n, state |-> st,
                       resolve_branches |-> rb] :
                r \in RepoArgs, b \in BaseSaveArgs,
                p \in SeqsUpTo(BatchPlaybooks, MaxPlaybooks), n \in Names,
                st \in LayerState, rb \in BOOLEAN} :
        a.resolve_branches \/ Truthy(a.git_branch)}

\* What the product catalog answers for args.product. The answer is not asked
\* for without --product.
ProductAnswers(a) ==
    IF a.product = ProductPV
    THEN {[error |-> TRUE, clone_url |-> None, commit |-> None],
          [error |-> FALSE, clone_url |-> None, commit |-> Commit111],
          [error |-> FALSE, clone_url |-> UrlCatalog, commit |-> None],
          [error |-> FALSE, clone_url |-> UrlCatalog, commit |-> Commit111]}
    ELSE {[error |-> FALSE, clone_url |-> UrlCatalog, commit |-> Commit111]}

\* What the VCS answers for args.git_branch. The answer is not asked for
\* without --git-branch or with --no-resolve-branches.
RefsAnswers(a) ==
    IF Truthy(a.git_branch) /\ a.resolve_branches
    THEN {[error |-> TRUE, commit |-> None],
          [error |-> FALSE, commit |-> None],
          [error |-> FALSE, commit |-> Commit222]}
    ELSE {[error |-> FALSE, commit |-> Commit222]}

\* The layers of the configurations in CFS and in files, as CFS data: one with
\* the repository path of the candidates and playbook x.yml, one of another
\* repository.
StoredX ==
    [cloneUrl |-> catalog_clone_url(UrlCatalog), commit |-> Commit111,
     name |-> NameOld, playbook |-> PlaybookX]
StoredOther == [cloneUrl |-> UrlB, branch |-> BranchMain, name |-> NameA]
StoredLayerLists == {<<>>, <<StoredOther, StoredX>>}

ConfigName(k) == ConfigC \o <<ToString(k)>>

\* What CFS or the base file answers: a failure, the named configuration, the
\* layers of the file, or the configurations of the components of the query.
CfsAnswers(a) ==
    IF ~base_given(a) THEN {[error |-> FALSE, data |-> <<>>]}
    ELSE {[error |-> TRUE, data |-> <<>>]} \cup
         IF Truthy(a.base_config)
         THEN {[error |-> FALSE, data |-> <<[name |-> a.base_config, layers |-> l]>>] :
                   l \in StoredLayerLists}
         ELSE IF Truthy(a.base_file)
         THEN {[error |-> FALSE, data |-> <<[layers |-> l]>>] : l \in StoredLayerLists}
         ELSE {[error |-> FALSE,
                data |-> [k \in DOMAIN ls |-> [name |-> ConfigName(k), layers |-> ls[k]]]] :
                   ls \in SeqsUpTo(StoredLayerLists, MaxConfigs)}

Envs(a) ==
    {[product |-> p, refs |-> r, now |-> Timestamp, cfs |-> c] :
        p \in ProductAnswers(a), r \in RefsAnswers(a), c \in CfsAnswers(a)}

----------------------------------------------------------------------------
(* Reconciliation of one configuration: CFSConfiguration.__init__ followed *)
(* by any number of ensure_layer calls.                                    *)

\* No wait is under way.
WaitOff ==
    /\ wait_component_ids = {}
    /\ cfs_components = <<>>
    /\ components_by_status = <<>>
    /\ disabled_components = {}
    /\ error_components = {}
    /\ queried = {}
    /\ observed = <<>>
    /\ wpc = "off"

\* CFSConfiguration.__init__: the layers of the data, changed = False.
Init ==
    /\ layers \in SeqsUpTo(Layers, MaxLayers)
    /\ changed = FALSE
    /\ old_layers = layers
    /\ old_changed = FALSE
    /\ layer = BaseLayer
    /\ state = PRESENT
    /\ repeat = FALSE
    /\ modified = FALSE
    /\ pc = "loaded"
    /\ self_layer = BaseLayer
    /\ other_layer = BaseLayer
    /\ result = FALSE
    /\ mpc = "off"
    /\ args = NoBaseNoSave
    /\ env = NoBaseNoSave
    /\ base_configs = <<>>
    /\ cand_layers = <<>>
    /\ config_idx = 1
    /\ layer_idx = 1
    /\ unmodified_configs = <<>>
    /\ updated_cfs_configs = <<>>
    /\ updated_file_configs = <<>>
    /\ failed = <<>>
    /\ loaded = <<>>
    /\ applied = <<>>
    /\ bpc = "off"
    /\ entry = "off"
    /\ succeeded = <<>>
    /\ saves = <<>>
    /\ requests = {}
    /\ component_ids = {}
    /\ failed_components = {}
    /\ errors = {}
    /\ calls = <<>>
    /\ WaitOff

\* base_config.ensure_layer(new_layer, st)
EnsureLayerCall(new_layer, st) ==
        LET r == ensure_layer(layers, changed, new_layer, st)
        IN  /\ pc \in {"loaded", "ensured"}
            /\ Len(r.layers) <= MaxLayers
            /\ layers' = r.layers
            /\ changed' = r.changed
            /\ old_layers' = layers
            /\ old_changed' = changed
            /\ layer' = new_layer
            /\ state' = st
            /\ repeat' = (pc = "ensured" /\ layer = new_layer /\ state = st)
            /\ modified' = (modified \/ r.layers /= layers)
            /\ pc' = "ensured"
            /\ UNCHANGED matchVars
            /\ UNCHANGED waitVars
            /\ UNCHANGED batchVars

EnsureLayer == \E new_layer \in Layers, st \in LayerState : EnsureLayerCall(new_layer, st)

Next == EnsureLayer

Spec == Init /\ [][Next]_vars

----------------------------------------------------------------------------
(* The matcher on its own: one call self_layer.matches(other_layer).       *)

MatchInit ==
    /\ self_layer \in MatchLayers
    /\ other_layer \in MatchLayers \cup {RawLayerData}
    /\ result = FALSE
    /\ mpc = "args"
    /\ layers = <<>>
    /\ changed = FALSE
    /\ old_layers = <<>>
    /\ old_changed = FALSE
    /\ layer = BaseLayer
    /\ state = PRESENT
    /\ repeat = FALSE
    /\ modified = FALSE
    /\ pc = "off"
    /\ args = NoBaseNoSave
    /\ env = NoBaseNoSave
    /\ base_configs = <<>>
    /\ cand_layers = <<>>
    /\ config_idx = 1
    /\ layer_idx = 1
    /\ unmodified_configs = <<>>
    /\ updated_cfs_configs = <<>>
    /\ updated_file_configs = <<>>
    /\ failed = <<>>
    /\ loaded = <<>>
    /\ applied = <<>>
    /\ bpc = "off"
    /\ entry = "off"
    /\ succeeded = <<>>
    /\ saves = <<>>
    /\ requests = {}
    /\ component_ids = {}
    /\ failed_components = {}
    /\ errors = {}
    /\ calls = <<>>
    /\ WaitOff

Match ==
    /\ mpc = "args"
    /\ result' = matches(self_layer, other_layer)
    /\ mpc' = "returned"
    /\ UNCHANGED <<self_layer, other_layer>>
    /\ UNCHANGED recVars
    /\ UNCHANGED batchVars
    /\ UNCHANGED waitVars

MatchNext == Match

SpecMatch == MatchInit /\ [][MatchNext]_vars

----------------------------------------------------------------------------
(* update-configs: update_configurations over the arguments of one run.    *)
(* The layers of cand_layers are the objects ensure_layer stores in the    *)
(* configurations; resolve_branch_to_commit_hash is the one method that    *)
(* changes them, before the first ensure_layer call with the object, and   *)
(* on a resolved layer it changes nothing.                                 *)

BatchInit ==
    /\ args \in BatchArgs
    /\ env \in Envs(args)
    /\ base_configs = <<>>
    /\ cand_layers = <<>>
    /\ config_idx = 1
    /\ layer_idx = 1
    /\ unmodified_configs = <<>>
    /\ updated_cfs_configs = <<>>
    /\ updated_file_configs = <<>>
    /\ failed = <<>>
    /\ loaded = <<>>
    /\ applied = <<>>
    /\ bpc = "start"
    /\ entry = "update-configs"
    /\ succeeded = <<>>
    /\ saves = <<>>
    /\ requests = {}
    /\ component_ids = {}
    /\ failed_components = {}
    /\ errors = {}
    /\ calls = <<>>
    /\ WaitOff
    /\ layers = <<>>
    /\ changed = FALSE
    /\ old_layers = <<>>
    /\ old_changed = FALSE
    /\ layer = BaseLayer
    /\ state = PRESENT
    /\ repeat = FALSE
    /\ modified = FALSE
    /\ pc = "off"
    /\ self_layer = BaseLayer
    /\ other_layer = BaseLayer
    /\ result = FALSE
    /\ mpc = "off"

\* The try block: the base configurations and the layers. A
\* CFSConfigurationError of either is logged and the process exits with 1.
GetConfigsAndLayers ==
    /\ entry = "update-configs"
    /\ bpc = "start"
    /\ IF get_base_configs(args, env.cfs).error \/ construct_layers(args, env).error
       THEN /\ bpc' = "exit1"
            /\ UNCHANGED <<base_configs, cand_layers, loaded, applied>>
       ELSE /\ bpc' = "loop"
            /\ base_configs' = get_base_configs(args, env.cfs).configs
            /\ cand_layers' = construct_layers(args, env).layers
            /\ loaded' = get_base_configs(args, env.cfs).configs
            /\ applied' = [k \in DOMAIN get_base_configs(args, env.cfs).configs |-> <<>>]
    /\ requests' = requests \cup {"session"} \cup start_requests(args, env)
    /\ errors' = IF bpc' = "exit1" THEN errors \cup {"fetch"} ELSE errors
    /\ UNCHANGED <<args, env, config_idx, layer_idx, unmodified_configs,
                   updated_cfs_configs, updated_file_configs, failed,
                   entry, succeeded, saves, component_ids, failed_components>>
    /\ UNCHANGED recVars
    /\ UNCHANGED matchVars
    /\ UNCHANGED waitVars
    /\ UNCHANGED calls

\* One iteration of `for layer in layers`: the branch of the layer is resolved
\* when requested, and the layer is ensured in the current configuration. A
\* CFSConfigurationError of the resolution is not caught.
EnsureBatchLayer ==
    /\ entry = "update-configs"
    /\ bpc = "loop"
    /\ layer_idx <= Len(cand_layers)
    /\ cand_layers' =
          [cand_layers EXCEPT
              ![layer_idx] = resolve_if_requested(args, env, cand_layers[layer_idx]).layer]
    /\ IF resolve_if_requested(args, env, cand_layers[layer_idx]).error
       THEN /\ bpc' = "raised"
            /\ UNCHANGED <<base_configs, layer_idx, applied>>
       ELSE /\ bpc' = "loop"
            /\ base_configs' =
                  [base_configs EXCEPT
                      ![config_idx] =
                          [name |-> @.name] @@
                          ensure_layer(@.layers, @.changed, cand_layers'[layer_idx],
                                       args.state)]
            /\ layer_idx' = layer_idx + 1
            /\ applied' = [applied EXCEPT
                              ![config_idx] = Append(@, cand_layers'[layer_idx])]
    /\ requests' =
          IF args.resolve_branches /\ Truthy(cand_layers[layer_idx].branch)
          THEN requests \cup {"vcs"} ELSE requests
    /\ errors' = IF bpc' = "raised" THEN errors \cup {"resolve"} ELSE errors
    /\ UNCHANGED <<args, env, config_idx, unmodified_configs, updated_cfs_configs,
                   updated_file_configs, failed, loaded, entry, succeeded, saves,
                   component_ids, failed_components>>
    /\ UNCHANGED recVars
    /\ UNCHANGED matchVars
    /\ UNCHANGED waitVars
    /\ UNCHANGED calls

\* Mutant of FinishConfig: a failure to save ends the loop, and the failure is
\* reported at once.
FinishConfig_abort_on_failure ==
    /\ entry = "update-configs"
    /\ bpc = "loop"
    /\ layer_idx > Len(cand_layers)
    /\ \E ok \in BOOLEAN :
          IF ~base_configs[config_idx].changed
          THEN /\ ok
               /\ unmodified_configs' = Append(unmodified_configs, config_idx)
               /\ UNCHANGED <<updated_cfs_configs, updated_file_configs, failed,
                              saves, requests>>
          ELSE /\ saves' = Append(saves, save_call(base_configs, config_idx, ok))
               /\ requests' = requests \cup {"save"}
               /\ IF save_cfs_configuration(args, base_configs[config_idx], ok).error
                  THEN /\ failed' = Append(failed, config_idx)
                       /\ UNCHANGED <<unmodified_configs, updated_cfs_configs,
                                      updated_file_configs>>
                  ELSE IF save_cfs_configuration(args, base_configs[config_idx],
                                                 ok).returned = "none"
                  THEN /\ updated_file_configs' = Append(updated_file_configs, config_idx)
                       /\ UNCHANGED <<unmodified_configs, updated_cfs_configs, failed>>
                  ELSE /\ updated_cfs_configs' =
                             Append(updated_cfs_configs,
                                    save_cfs_configuration(args, base_configs[config_idx],
                                                           ok).config)
                       /\ UNCHANGED <<unmodified_configs, updated_file_configs, failed>>
    /\ IF config_idx < Len(base_configs) /\ failed' = failed
       THEN config_idx' = config_idx + 1 /\ layer_idx' = 1 /\ bpc' = "loop"
       ELSE bpc' = "report" /\ UNCHANGED <<config_idx, layer_idx>>
    /\ errors' = IF failed' /= failed THEN errors \cup {"save"} ELSE errors
    /\ UNCHANGED <<args, env, base_configs, cand_layers, loaded, applied,
                   entry, succeeded, component_ids, failed_components>>
    /\ UNCHANGED recVars
    /\ UNCHANGED matchVars
    /\ UNCHANGED waitVars
    /\ UNCHANGED calls

\* The rest of the body of `for base_config in base_configs`: an unchanged
\* configuration is skipped, a changed one is saved; the save succeeds or
\* fails (ok), and a failure is collected.
FinishConfig ==
    /\ entry = "update-configs"
    /\ bpc = "loop"
    /\ layer_idx > Len(cand_layers)
    /\ \E ok \in BOOLEAN :
          IF ~base_configs[config_idx].changed
          THEN /\ ok
               /\ unmodified_configs' = Append(unmodified_configs, config_idx)
               /\ UNCHANGED <<updated_cfs_configs, updated_file_configs, failed,
                              saves, requests>>
          ELSE /\ saves' = Append(saves, save_call(base_configs, config_idx, ok))
               /\ requests' = requests \cup {"save"}
               /\ IF save_cfs_configuration(args, base_configs[config_idx], ok).error
                  THEN /\ failed' = Append(failed, config_idx)
                       /\ UNCHANGED <<unmodified_configs, updated_cfs_configs,
                                      updated_file_configs>>
                  ELSE IF save_cfs_configuration(args, base_configs[config_idx],
                                                 ok).returned = "none"
                  THEN /\ updated_file_configs' = Append(updated_file_configs, config_idx)
                       /\ UNCHANGED <<unmodified_configs, updated_cfs_configs, failed>>
                  ELSE /\ updated_cfs_configs' =
                             Append(updated_cfs_configs,
                                    save_cfs_configuration(args, base_configs[config_idx],
                                                           ok).config)
                       /\ UNCHANGED <<unmodified_configs, updated_file_configs, failed>>
    /\ IF config_idx < Len(base_configs)
       THEN config_idx' = config_idx + 1 /\ layer_idx' = 1 /\ bpc' = "loop"
       ELSE bpc' = "report" /\ UNCHANGED <<config_idx, layer_idx>>
    /\ errors' = IF failed' /= failed THEN errors \cup {"save"} ELSE errors
    /\ UNCHANGED <<args, env, base_configs, cand_layers, loaded, applied,
                   entry, succeeded, component_ids, failed_components>>
    /\ UNCHANGED recVars
    /\ UNCHANGED matchVars
    /\ UNCHANGED waitVars
    /\ UNCHANGED calls

\* Mutant of Report: the function returns whether or not a save failed.
Report_ignores_failures ==
    /\ entry = "update-configs"
    /\ bpc = "report"
    /\ bpc' = "returned"
    /\ UNCHANGED <<args, env, base_configs, cand_layers, config_idx, layer_idx,
                   unmodified_configs, updated_cfs_configs, updated_file_configs,
                   failed, loaded, applied, entry, succeeded, saves, requests,
                   component_ids, failed_components, errors>>
    /\ UNCHANGED recVars
    /\ UNCHANGED matchVars
    /\ UNCHANGED waitVars
    /\ UNCHANGED calls

\* After the loop: the counts are logged; SystemExit(1) when a configuration
\* failed to save, else the function returns.
Report ==
    /\ entry = "update-configs"
    /\ bpc = "report"
    /\ bpc' = IF failed /= <<>> THEN "exit1" ELSE "returned"
    /\ UNCHANGED <<args, env, base_configs, cand_layers, config_idx, layer_idx,
                   unmodified_configs, updated_cfs_configs, updated_file_configs,
                   failed, loaded, applied, entry, succeeded, saves, requests,
                   component_ids, failed_components, errors>>
    /\ UNCHANGED recVars
    /\ UNCHANGED matchVars
    /\ UNCHANGED waitVars
    /\ UNCHANGED calls

BatchNext == GetConfigsAndLayers \/ EnsureBatchLayer \/ FinishConfig \/ Report

SpecBatch == BatchInit /\ [][BatchNext]_vars

----------------------------------------------------------------------------
(* activation.ensure_product_layer: the layer of a product version is      *)
(* ensured in the configurations of the components of an HSM query, and    *)
(* every one of them is saved to CFS.                                      *)

VersionV == <<"1">>

\* The arguments of ensure_product_layer. Commit and branch are not given
\* together.
ActivationArgs ==
    {[product |-> ProductP, version |-> VersionV, playbook |-> p, state |-> st,
      hsm_query_params |-> q, git_commit |-> r[1], git_branch |-> r[2]] :
        p \in {None} \cup BatchPlaybooks, st \in LayerState, q \in {<<>>, QueryQ},
        r \in {<<None, None>>, <<CommitLong, None>>, <<None, BranchMain>>}}

\* What the product catalog, and HSM and CFS, answer to ensure_product_layer.
ActivationEnvs ==
    {[product |-> p, refs |-> [error |-> FALSE, commit |-> Commit222],
      now |-> Timestamp, cfs |-> c] :
        p \in ProductAnswers([product |-> ProductPV]),
        c \in {[error |-> TRUE, data |-> <<>>]} \cup
              {[error |-> FALSE,
                data |-> [k \in DOMAIN ls |-> [name |-> ConfigName(k), layers |-> ls[k]]]] :
                  ls \in SeqsUpTo(StoredLayerLists, MaxConfigs)}}

ActivationInit ==
    /\ args \in ActivationArgs
    /\ env \in ActivationEnvs
    /\ base_configs = <<>>
    /\ cand_layers = <<>>
    /\ config_idx = 1
    /\ layer_idx = 1
    /\ unmodified_configs = <<>>
    /\ updated_cfs_configs = <<>>
    /\ updated_file_configs = <<>>
    /\ failed = <<>>
    /\ loaded = <<>>
    /\ applied = <<>>
    /\ bpc = "start"
    /\ entry = "activation"
    /\ succeeded = <<>>
    /\ saves = <<>>
    /\ requests = {}
    /\ component_ids = {}
    /\ failed_components = {}
    /\ errors = {}
    /\ calls = <<>>
    /\ WaitOff
    /\ layers = <<>>
    /\ changed = FALSE
    /\ old_layers = <<>>
    /\ old_changed = FALSE
    /\ layer = BaseLayer
    /\ state = PRESENT
    /\ repeat = FALSE
    /\ modified = FALSE
    /\ pc = "off"
    /\ self_layer = BaseLayer
    /\ other_layer = BaseLayer
    /\ result = FALSE
    /\ mpc = "off"

\* The product layer of ensure_product_layer.
product_layer(a, e) ==
    from_product_catalog(e.product, a.product, a.version, None, a.playbook,
                         a.git_commit, a.git_branch, e.now)

\* Mutant of EnsureProductLayerStart: the HSM query parameters are not
\* required.
EnsureProductLayerStart_unguarded ==
    /\ entry = "activation"
    /\ bpc = "start"
    /\ IF product_layer(args, env).error
       THEN /\ bpc' = "raised"
            /\ requests' = requests \cup {"catalog"}
            /\ UNCHANGED <<base_configs, cand_layers, loaded, applied>>
       ELSE IF env.cfs.error
       THEN /\ bpc' = "raised"
            /\ requests' = requests \cup {"catalog", "session", "hsm", "cfs"}
            /\ UNCHANGED <<base_configs, cand_layers, loaded, applied>>
       ELSE /\ bpc' = "loop"
            /\ requests' = requests \cup {"catalog", "session", "hsm", "cfs"}
            /\ base_configs' = [k \in DOMAIN env.cfs.data |-> CFSConfiguration(env.cfs.data[k])]
            /\ cand_layers' = <<product_layer(args, env).layer>>
            /\ loaded' = [k \in DOMAIN env.cfs.data |-> CFSConfiguration(env.cfs.data[k])]
            /\ applied' = [k \in DOMAIN env.cfs.data |-> <<>>]
    /\ errors' = IF product_layer(args, env).error THEN errors \cup {"catalog"}
                 ELSE IF env.cfs.error THEN errors \cup {"fetch"}
                 ELSE errors
    /\ UNCHANGED <<args, env, config_idx, layer_idx, unmodified_configs,
                   updated_cfs_configs, updated_file_configs, failed,
                   entry, succeeded, saves, component_ids, failed_components>>
    /\ UNCHANGED recVars
    /\ UNCHANGED matchVars
    /\ UNCHANGED waitVars
    /\ UNCHANGED calls

\* Up to the loop: the product layer is built, the HSM query parameters are
\* required, and the configurations of the components are fetched. Each
\* failure is a CFSConfigurationError raised to the caller: the one of the
\* product catalog ("catalog"), 'HSM query parameters must be specified.'
\* ("params"), or the one of the query of HSM and CFS ("fetch").
EnsureProductLayerStart ==
    /\ entry = "activation"
    /\ bpc = "start"
    /\ IF product_layer(args, env).error
       THEN /\ bpc' = "raised"
            /\ requests' = requests \cup {"catalog"}
            /\ UNCHANGED <<base_configs, cand_layers, loaded, applied>>
       ELSE IF ~Truthy(args.hsm_query_params)
       THEN /\ bpc' = "raised"
            /\ requests' = requests \cup {"catalog"}
            /\ UNCHANGED <<base_configs, cand_layers, loaded, applied>>
       ELSE IF env.cfs.error
       THEN /\ bpc' = "raised"
            /\ requests' = requests \cup {"catalog", "session", "hsm", "cfs"}
            /\ UNCHANGED <<base_configs, cand_layers, loaded, applied>>
       ELSE /\ bpc' = "loop"
            /\ requests' = requests \cup {"catalog", "session", "hsm", "cfs"}
            /\ base_configs' = [k \in DOMAIN env.cfs.data |-> CFSConfiguration(env.cfs.data[k])]
            /\ cand_layers' = <<product_layer(args, env).layer>>
            /\ loaded' = [k \in DOMAIN env.cfs.data |-> CFSConfiguration(env.cfs.data[k])]
            /\ applied' = [k \in DOMAIN env.cfs.data |-> <<>>]
    /\ errors' = IF product_layer(args, env).error THEN errors \cup {"catalog"}
                 ELSE IF ~Truthy(args.hsm_query_params) THEN errors \cup {"params"}
                 ELSE IF env.cfs.error THEN errors \cup {"fetch"}
                 ELSE errors
    /\ UNCHANGED <<args, env, config_idx, layer_idx, unmodified_configs,
                   updated_cfs_configs, updated_file_configs, failed,
                   entry, succeeded, saves, component_ids, failed_components>>
    /\ UNCHANGED recVars
    /\ UNCHANGED matchVars
    /\ UNCHANGED waitVars
    /\ UNCHANGED calls

\* The body of `for cfs_config in cfs_configs`: the layer is ensured and the
\* configuration is saved to CFS, whether it changed or not; the save
\* succeeds or fails (ok), and the name goes to succeeded or to failed.
EnsureProductLayerConfig ==
    /\ entry = "activation"
    /\ bpc = "loop"
    /\ config_idx <= Len(base_configs)
    /\ base_configs' =
          [base_configs EXCEPT
              ![config_idx] =
                  [name |-> @.name] @@
                  ensure_layer(@.layers, @.changed, cand_layers[1], args.state)]
    /\ applied' = [applied EXCEPT ![config_idx] = Append(@, cand_layers[1])]
    /\ \E ok \in BOOLEAN :
          /\ saves' = Append(saves, save_call(base_configs', config_idx, ok))
          /\ IF save_to_cfs(base_configs'[config_idx], None, ok).error
             THEN /\ failed' = Append(failed, base_configs'[config_idx].name)
                  /\ UNCHANGED succeeded
             ELSE /\ succeeded' = Append(succeeded, base_configs'[config_idx].name)
                  /\ UNCHANGED failed
    /\ requests' = requests \cup {"save"}
    /\ config_idx' = config_idx + 1
    /\ errors' = IF failed' /= failed THEN errors \cup {"save"} ELSE errors
    /\ UNCHANGED <<args, env, cand_layers, layer_idx, unmodified_configs,
                   updated_cfs_configs, updated_file_configs, loaded, entry, bpc,
                   component_ids, failed_components>>
    /\ UNCHANGED recVars
    /\ UNCHANGED matchVars
    /\ UNCHANGED waitVars
    /\ UNCHANGED calls

\* `return succeeded, failed`
EnsureProductLayerReturn ==
    /\ entry = "activation"
    /\ bpc = "loop"
    /\ config_idx > Len(base_configs)
    /\ bpc' = "returned"
    /\ UNCHANGED <<args, env, base_configs, cand_layers, config_idx, layer_idx,
                   unmodified_configs, updated_cfs_configs, updated_file_configs,
                   failed, loaded, applied, entry, succeeded, saves, requests,
                   component_ids, failed_components, errors>>
    /\ UNCHANGED recVars
    /\ UNCHANGED matchVars
    /\ UNCHANGED waitVars
    /\ UNCHANGED calls

ActivationNext ==
    EnsureProductLayerStart \/ EnsureProductLayerConfig \/ EnsureProductLayerReturn

----------------------------------------------------------------------------
(* The command line: the checks of parser.py, and the update-configs and   *)
(* update-components actions after the configurations are saved.           *)

\* Bound on the number of CFS components.
MaxComponents == 2

\* Component IDs (xnames).
ComponentIds == {ToString(k) : k \in 1..MaxComponents}

EnabledTrue == <<"True">>
UPDATE_CONFIGS == "update-configs"
UPDATE_COMPONENTS == "update-components"

saves_to_cfs(a) ==
    \/ Truthy(a.save_to_cfs)
    \/ (Truthy(a.base_config) \/ Truthy(a.base_query)) /\ ~Truthy(a.save_to_file)

assign_requested(a) == Truthy(a.assign_to_xnames) \/ Truthy(a.assign_to_query)

apply_options_provided(a) == a.clear_state \/ a.clear_error \/ a.enabled /= None

\* Mutant of check_update_configs_args: an assignment is not checked against
\* --base-query.
check_update_configs_args_assign_with_query(a) ==
    \/ ~base_given(a) /\ (a.save \/ Truthy(a.save_suffix))
    \/ a.base_query /= None /\ (Truthy(a.save_to_cfs) \/ Truthy(a.save_to_file))
    \/ Truthy(a.clone_url) /\ ~(Truthy(a.git_branch) \/ Truthy(a.git_commit))
    \/ assign_requested(a) /\ ~saves_to_cfs(a)
    \/ apply_options_provided(a) /\ ~saves_to_cfs(a)

\* check_update_configs_args: true when it raises ValueError.
check_update_configs_args(a) ==
    \/ ~base_given(a) /\ (a.save \/ Truthy(a.save_suffix))
    \/ a.base_query /= None /\ (Truthy(a.save_to_cfs) \/ Truthy(a.save_to_file))
    \/ Truthy(a.clone_url) /\ ~(Truthy(a.git_branch) \/ Truthy(a.git_commit))
    \/ assign_requested(a) /\ ~saves_to_cfs(a)
    \/ assign_requested(a) /\ a.base_query /= None
    \/ apply_options_provided(a) /\ ~saves_to_cfs(a)

\* check_update_components_args: true when it raises ValueError.
check_update_components_args(a) ==
    ~(Truthy(a.desired_config) \/ a.clear_state \/ a.clear_error \/ a.enabled /= None)

\* check_args: true when it raises ValueError.
check_args(a) ==
    IF a.canonical_action = UPDATE_CONFIGS THEN check_update_configs_args(a)
    ELSE IF a.canonical_action = UPDATE_COMPONENTS THEN check_update_components_args(a)
    ELSE FALSE

\* get_node_ids: the given IDs and, with a query, the IDs HSM answers; `hsm`
\* is the answer, error for an APIError. The IDs are kept as a set.
get_node_ids(given_ids, hsm_query, hsm) ==
    IF Truthy(hsm_query) /\ hsm.error THEN [error |-> TRUE, ids |-> {}]
    ELSE [error |-> FALSE,
          ids |-> (IF given_ids = None THEN {} ELSE {given_ids[k] : k \in DOMAIN given_ids})
                  \cup (IF Truthy(hsm_query) THEN hsm.ids ELSE {})]

\* The orders in which a collection of component IDs can be iterated.
Orders(ids) ==
    {f \in [1..Cardinality(ids) -> ids] : \A i, j \in DOMAIN f : f[i] = f[j] => i = j}

\* The record of one cfs_client.update_component call in the history: the
\* component, the desired configuration passed, and whether the call went
\* through.
update_component_call(id, desired_config, ok) ==
    [op |-> "update_component", ids |-> {id}, desired_config |-> desired_config, ok |-> ok]

\* The record of one wait_for_component_configuration call in the history.
wait_call(ids) ==
    [op |-> "wait", ids |-> ids, desired_config |-> None, ok |-> TRUE]

\* Mutant of update_cfs_components: the loop ends with the first update that
\* fails.
update_cfs_components_stops_at_failure(order, desired_config, refused) ==
    LET last == IF \E k \in DOMAIN order : order[k] \in refused
                THEN CHOOSE k \in DOMAIN order :
                         order[k] \in refused /\ \A j \in 1..(k - 1) : order[j] \notin refused
                ELSE Len(order)
    IN  [calls |-> [k \in 1..last |->
                      update_component_call(order[k], desired_config, order[k] \notin refused)],
         failed_components |-> SelectSeq(SubSeq(order, 1, last), LAMBDA c : c \in refused),
         error |-> \E k \in DOMAIN order : order[k] \in refused]

\* update_cfs_components. `order` is the component IDs as the loop takes them,
\* `refused` the components whose update_component call raises APIError. The
\* result is the calls made, the list failed_components, and error for a
\* CFSConfigUtilError, whose message joins failed_components.
update_cfs_components(order, desired_config, refused) ==
    [calls |-> [k \in DOMAIN order |->
                  update_component_call(order[k], desired_config, order[k] \notin refused)],
     failed_components |-> SelectSeq(order, LAMBDA c : c \in refused),
     error |-> SelectSeq(order, LAMBDA c : c \in refused) /= <<>>]

\* all_configs[0].name of do_update_configs: the name of the first of the
\* configurations saved to CFS, or else of the unchanged ones.
assigned_name ==
    IF updated_cfs_configs /= <<>> THEN updated_cfs_configs[1].name
    ELSE base_configs[unmodified_configs[1]].name

\* What HSM or CFS answers when asked for component IDs.
ComponentAnswers ==
    {[error |-> TRUE, ids |-> {}]} \cup {[error |-> FALSE, ids |-> c] : c \in SUBSET ComponentIds}

\* The options of the "apply" group when none is given.
NoApply ==
    [assign_to_xnames |-> None, assign_to_query |-> None, clear_state |-> FALSE,
     clear_error |-> FALSE, enabled |-> None, wait |-> TRUE,
     canonical_action |-> UPDATE_CONFIGS]

\* Base, save and apply options that check_update_configs_args accepts.
BaseSaveApplyArgs ==
    { [NoBaseNoSave EXCEPT !.save_to_cfs = ConfigC] @@ NoApply,
      [NoBaseNoSave EXCEPT !.save_to_file = FileF] @@ NoApply,
      [NoBaseNoSave EXCEPT !.base_config = ConfigC, !.save = TRUE] @@
          [NoApply EXCEPT !.clear_state = TRUE],
      [NoBaseNoSave EXCEPT !.base_file = FileF, !.save_suffix = SuffixS] @@
          [NoApply EXCEPT !.wait = FALSE],
      [NoBaseNoSave EXCEPT !.base_query = QueryQ, !.save = TRUE] @@
          [NoApply EXCEPT !.clear_error = TRUE, !.wait = FALSE],
      [NoBaseNoSave EXCEPT !.base_query = QueryQ, !.save_suffix = SuffixS] @@
          [NoApply EXCEPT !.enabled = EnabledTrue],
      [NoBaseNoSave EXCEPT !.save_to_cfs = ConfigC] @@
          [NoApply EXCEPT !.assign_to_xnames = <<"1">>],
      [NoBaseNoSave EXCEPT !.base_config = ConfigC, !.save = TRUE] @@
          [NoApply EXCEPT !.assign_to_query = QueryQ, !.enabled = EnabledTrue],
      [NoBaseNoSave EXCEPT !.base_config = ConfigC, !.save_suffix = SuffixS] @@
          [NoApply EXCEPT !.assign_to_xnames = <<"1">>, !.wait = FALSE] }

\* The layer options of the runs: a repository with a commit or a branch, or
\* a product version.
RunRepoArgs ==
    {r \in RepoArgs : (r.product = None \/ (r.product = ProductPV /\ r.git_commit = None
                                            /\ r.git_branch = None))}

\* The arguments of the update-configs runs.
RunArgs ==
    {r @@ b @@ [playbooks |-> p, layer_name |-> None, state |-> st,
                resolve_branches |-> TRUE] :
        r \in RunRepoArgs, b \in BaseSaveApplyArgs,
        p \in {<<>>, <<PlaybookX>>, <<PlaybookX, PlaybookY>>}, st \in LayerState}

\* The state of every run before its first step.
StartOfRun ==
    /\ base_configs = <<>>
    /\ cand_layers = <<>>
    /\ config_idx = 1
    /\ layer_idx = 1
    /\ unmodified_configs = <<>>
    /\ updated_cfs_configs = <<>>
    /\ updated_file_configs = <<>>
    /\ failed = <<>>
    /\ loaded = <<>>
    /\ applied = <<>>
    /\ bpc = "start"
    /\ succeeded = <<>>
    /\ saves = <<>>
    /\ requests = {}
    /\ component_ids = {}
    /\ failed_components = {}
    /\ errors = {}
    /\ calls = <<>>
    /\ layers = <<>>
    /\ changed = FALSE
    /\ old_layers = <<>>
    /\ old_changed = FALSE
    /\ layer = BaseLayer
    /\ state = PRESENT
    /\ repeat = FALSE
    /\ modified = FALSE
    /\ pc = "off"
    /\ self_layer = BaseLayer
    /\ other_layer = BaseLayer
    /\ result = FALSE
    /\ mpc = "off"

\* do_update_configs with checked arguments.
UpdateConfigsInit ==
    /\ args \in RunArgs
    /\ ~check_args(args)
    /\ env \in Envs(args)
    /\ entry = "update-configs"
    /\ StartOfRun
    /\ WaitOff

\* get_affected_components(cfs_client, modified_configs): the components that
\* use a configuration saved to CFS. A failure is a CFSConfigUtilError that
\* do_update_configs does not catch.
GetAffectedComponents ==
    /\ entry = "update-configs"
    /\ bpc = "returned"
    /\ IF updated_cfs_configs = <<>>
       THEN /\ bpc' = "affected"
            /\ UNCHANGED <<component_ids, requests, errors>>
       ELSE \E cfs \in ComponentAnswers :
               /\ requests' = requests \cup {"cfs"}
               /\ IF cfs.error
                  THEN /\ bpc' = "raised"
                       /\ errors' = errors \cup {"query"}
                       /\ UNCHANGED component_ids
                  ELSE /\ bpc' = "affected"
                       /\ component_ids' = cfs.ids
                       /\ UNCHANGED errors
    /\ UNCHANGED <<args, env, base_configs, cand_layers, config_idx, layer_idx,
                   unmodified_configs, updated_cfs_configs, updated_file_configs,
                   failed, loaded, applied, entry, succeeded, saves, failed_components>>
    /\ UNCHANGED recVars
    /\ UNCHANGED matchVars
    /\ UNCHANGED waitVars
    /\ UNCHANGED calls

\* `if apply_options_provided(args): update_cfs_components(...)`: every
\* affected component is updated; the updates of failed_components fail, and
\* then CFSConfigUtilError is raised, which do_update_configs does not catch.
ApplyOptions ==
    /\ entry = "update-configs"
    /\ bpc = "affected"
    /\ IF apply_options_provided(args)
       THEN \E f \in SUBSET component_ids, order \in Orders(component_ids) :
               /\ calls' = calls \o update_cfs_components(order, None, f).calls
               /\ failed_components' = Range(update_cfs_components(order, None, f).failed_components)
               /\ requests' = IF component_ids = {} THEN requests ELSE requests \cup {"cfs"}
               /\ bpc' = IF update_cfs_components(order, None, f).error
                         THEN "raised" ELSE "applied"
               /\ errors' = IF update_cfs_components(order, None, f).error
                            THEN errors \cup {"update"} ELSE errors
       ELSE /\ bpc' = "applied"
            /\ UNCHANGED <<failed_components, requests, errors, calls>>
    /\ UNCHANGED <<args, env, base_configs, cand_layers, config_idx, layer_idx,
                   unmodified_configs, updated_cfs_configs, updated_file_configs,
                   failed, loaded, applied, entry, succeeded, saves, component_ids>>
    /\ UNCHANGED recVars
    /\ UNCHANGED matchVars
    /\ UNCHANGED waitVars

\* `if assign_requested(args):` the one configuration is assigned to the
\* components of --assign-to-xnames and --assign-to-query. Not exactly one
\* configuration, a failed HSM query and a failed update each end the process
\* with SystemExit(1).
AssignConfiguration ==
    /\ entry = "update-configs"
    /\ bpc = "applied"
    /\ IF ~assign_requested(args)
       THEN /\ bpc' = "assigned"
            /\ UNCHANGED <<component_ids, failed_components, requests, errors, calls>>
       ELSE IF Len(updated_cfs_configs) + Len(unmodified_configs) /= 1
       THEN /\ bpc' = "exit1"
            /\ errors' = errors \cup {"assign"}
            /\ UNCHANGED <<component_ids, failed_components, requests, calls>>
       ELSE \E hsm \in ComponentAnswers :
               IF get_node_ids(args.assign_to_xnames, args.assign_to_query, hsm).error
               THEN /\ bpc' = "exit1"
                    /\ errors' = errors \cup {"query"}
                    /\ requests' = requests \cup {"hsm"}
                    /\ UNCHANGED <<component_ids, failed_components, calls>>
               ELSE \E f \in SUBSET get_node_ids(args.assign_to_xnames,
                                                 args.assign_to_query, hsm).ids,
                       order \in Orders(get_node_ids(args.assign_to_xnames,
                                                     args.assign_to_query, hsm).ids) :
                       /\ calls' = calls \o update_cfs_components(order, assigned_name, f).calls
                       /\ failed_components' =
                             failed_components \cup
                             Range(update_cfs_components(order, assigned_name, f).failed_components)
                       /\ requests' = requests \cup {"hsm", "cfs"}
                       /\ bpc' = IF update_cfs_components(order, assigned_name, f).error
                                 THEN "exit1" ELSE "assigned"
                       /\ errors' = IF update_cfs_components(order, assigned_name, f).error
                                    THEN errors \cup {"update"} ELSE errors
                       /\ component_ids' =
                             IF update_cfs_components(order, assigned_name, f).error
                             THEN component_ids
                             ELSE component_ids \cup
                                  get_node_ids(args.assign_to_xnames,
                                               args.assign_to_query, hsm).ids
    /\ UNCHANGED <<args, env, base_configs, cand_layers, config_idx, layer_idx,
                   unmodified_configs, updated_cfs_configs, updated_file_configs,
                   failed, loaded, applied, entry, succeeded, saves>>
    /\ UNCHANGED recVars
    /\ UNCHANGED matchVars
    /\ UNCHANGED waitVars

\* Mutant of WaitAndReturn: the wait is entered on `if args.wait:` alone.
WaitAndReturn_without_components ==
    /\ entry = "update-configs"
    /\ bpc = "assigned"
    /\ bpc' = "done"
    /\ calls' = IF args.wait
                THEN Append(calls, wait_call(component_ids)) ELSE calls
    /\ requests' = IF args.wait THEN requests \cup {"cfs"}
                  ELSE requests
    /\ UNCHANGED <<args, env, base_configs, cand_layers, config_idx, layer_idx,
                   unmodified_configs, updated_cfs_configs, updated_file_configs,
                   failed, loaded, applied, entry, succeeded, saves,
                   component_ids, failed_components, errors>>
    /\ UNCHANGED recVars
    /\ UNCHANGED matchVars
    /\ UNCHANGED waitVars

\* `if args.wait and affected_components: wait_for_component_configuration(...)`,
\* and the return of do_update_configs. The step is taken when the wait
\* returns.
WaitAndReturn ==
    /\ entry = "update-configs"
    /\ bpc = "assigned"
    /\ bpc' = "done"
    /\ calls' = IF args.wait /\ component_ids /= {}
                THEN Append(calls, wait_call(component_ids)) ELSE calls
    /\ requests' = IF args.wait /\ component_ids /= {} THEN requests \cup {"cfs"}
                  ELSE requests
    /\ UNCHANGED <<args, env, base_configs, cand_layers, config_idx, layer_idx,
                   unmodified_configs, updated_cfs_configs, updated_file_configs,
                   failed, loaded, applied, entry, succeeded, saves,
                   component_ids, failed_components, errors>>
    /\ UNCHANGED recVars
    /\ UNCHANGED matchVars
    /\ UNCHANGED waitVars

UpdateConfigsNext ==
    BatchNext \/ GetAffectedComponents \/ ApplyOptions \/ AssignConfiguration
    \/ WaitAndReturn

\* The arguments of update-components; those with no option to apply are
\* refused by check_update_components_args.
ComponentsArgs ==
    {[xnames |-> x, query |-> q, desired_config |-> d, clear_state |-> cs,
      clear_error |-> FALSE, enabled |-> None, wait |-> w,
      canonical_action |-> UPDATE_COMPONENTS] :
        x \in {None, <<"1">>}, q \in {None, QueryQ}, d \in {None, ConfigC},
        cs \in BOOLEAN, w \in BOOLEAN}

\* do_update_components with checked arguments.
UpdateComponentsInit ==
    /\ args \in ComponentsArgs
    /\ ~check_args(args)
    /\ env = [product |-> [error |-> FALSE, clone_url |-> UrlCatalog, commit |-> Commit111],
              refs |-> [error |-> FALSE, commit |-> Commit222],
              now |-> Timestamp, cfs |-> [error |-> FALSE, data |-> <<>>]]
    /\ entry = "update-components"
    /\ StartOfRun
    /\ WaitOff

\* The session and get_node_ids(hsm_client, args.xnames, args.query); its
\* CFSConfigUtilError is not caught.
GetNodeIds ==
    /\ entry = "update-components"
    /\ bpc = "start"
    /\ \E hsm \in ComponentAnswers :
          /\ requests' = requests \cup {"session"} \cup
                         (IF Truthy(args.query) THEN {"hsm"} ELSE {})
          /\ IF get_node_ids(args.xnames, args.query, hsm).error
             THEN /\ bpc' = "raised"
                  /\ errors' = errors \cup {"query"}
                  /\ UNCHANGED component_ids
             ELSE /\ bpc' = "nodes"
                  /\ component_ids' = get_node_ids(args.xnames, args.query, hsm).ids
                  /\ UNCHANGED errors
    /\ UNCHANGED <<args, env, base_configs, cand_layers, config_idx, layer_idx,
                   unmodified_configs, updated_cfs_configs, updated_file_configs,
                   failed, loaded, applied, entry, succeeded, saves, failed_components>>
    /\ UNCHANGED recVars
    /\ UNCHANGED matchVars
    /\ UNCHANGED waitVars
    /\ UNCHANGED calls

\* update_cfs_components in its try block: every component is updated; when
\* the update of any fails, the error is logged and the process exits with 1.
UpdateComponents ==
    /\ entry = "update-components"
    /\ bpc = "nodes"
    /\ \E f \in SUBSET component_ids, order \in Orders(component_ids) :
          /\ calls' = calls \o update_cfs_components(order, args.desired_config, f).calls
          /\ failed_components' =
                Range(update_cfs_components(order, args.desired_config, f).failed_components)
          /\ bpc' = IF update_cfs_components(order, args.desired_config, f).error
                    THEN "exit1" ELSE "updated"
          /\ errors' = IF update_cfs_components(order, args.desired_config, f).error
                       THEN errors \cup {"update"} ELSE errors
    /\ requests' = IF component_ids = {} THEN requests ELSE requests \cup {"cfs"}
    /\ UNCHANGED <<args, env, base_configs, cand_layers, config_idx, layer_idx,
                   unmodified_configs, updated_cfs_configs, updated_file_configs,
                   failed, loaded, applied, entry, succeeded, saves, component_ids>>
    /\ UNCHANGED recVars
    /\ UNCHANGED matchVars
    /\ UNCHANGED waitVars

\* `if args.wait: wait_for_component_configuration(...)`, and the return of
\* do_update_components. The step is taken when the wait returns.
ComponentsWaitAndReturn ==
    /\ entry = "update-components"
    /\ bpc = "updated"
    /\ bpc' = "done"
    /\ calls' = IF args.wait THEN Append(calls, wait_call(component_ids)) ELSE calls
    /\ requests' = IF args.wait /\ component_ids /= {} THEN requests \cup {"cfs"}
                  ELSE requests
    /\ UNCHANGED <<args, env, base_configs, cand_layers, config_idx, layer_idx,
                   unmodified_configs, updated_cfs_configs, updated_file_configs,
                   failed, loaded, applied, entry, succeeded, saves,
                   component_ids, failed_components, errors>>
    /\ UNCHANGED recVars
    /\ UNCHANGED matchVars
    /\ UNCHANGED waitVars

UpdateComponentsNext == GetNodeIds \/ UpdateComponents \/ ComponentsWaitAndReturn

----------------------------------------------------------------------------
(* bin/main.py: main() reconciles one layer, read from args.playbook, in   *)
(* the base configurations.                                                *)

\* Base and save options given to main: accepted ones, the same without a
\* base, and ones that check_args refuses.
MainBaseSaveArgs ==
    { [NoBaseNoSave EXCEPT !.base_config = ConfigC, !.save = TRUE] @@ NoApply,
      [NoBaseNoSave EXCEPT !.base_file = FileF, !.save_suffix = SuffixS] @@ NoApply,
      [NoBaseNoSave EXCEPT !.base_query = QueryQ, !.save = TRUE] @@ NoApply,
      [NoBaseNoSave EXCEPT !.save_to_cfs = ConfigC] @@ NoApply,
      [NoBaseNoSave EXCEPT !.save = TRUE] @@ NoApply,
      [NoBaseNoSave EXCEPT !.base_query = <<>>, !.save = TRUE] @@ NoApply,
      [NoBaseNoSave EXCEPT !.base_query = <<>>, !.save_to_cfs = ConfigC] @@ NoApply,
      [NoBaseNoSave EXCEPT !.base_query = QueryQ, !.save_to_cfs = ConfigC] @@ NoApply,
      [NoBaseNoSave EXCEPT !.base_config = ConfigC, !.save_to_file = FileF] @@
          [NoApply EXCEPT !.assign_to_xnames = <<"1">>] }

\* The arguments of main, compatible or not.
MainArgs ==
    {r @@ b @@ [playbook |-> p, layer_name |-> None, state |-> st,
                resolve_branches |-> TRUE] :
        r \in RunRepoArgs \cup {[product |-> None, clone_url |-> UrlRepo,
                                 git_commit |-> None, git_branch |-> None]},
        b \in MainBaseSaveArgs, p \in {None, PlaybookX}, st \in LayerState}

MainInit ==
    /\ args \in MainArgs
    /\ env \in Envs(args)
    /\ entry = "main"
    /\ StartOfRun
    /\ WaitOff

\* Mutant of MainCheckArgs: the arguments are not checked.
MainCheckArgs_unchecked ==
    /\ entry = "main"
    /\ bpc = "start"
    /\ bpc' = "checked"
    /\ errors' = errors
    /\ UNCHANGED <<args, env, base_configs, cand_layers, config_idx, layer_idx,
                   unmodified_configs, updated_cfs_configs, updated_file_configs,
                   failed, loaded, applied, entry, succeeded, saves, requests,
                   component_ids, failed_components>>
    /\ UNCHANGED recVars
    /\ UNCHANGED matchVars
    /\ UNCHANGED waitVars
    /\ UNCHANGED calls

\* parse_args and check_args: a ValueError is logged and the process exits
\* with 1.
MainCheckArgs ==
    /\ entry = "main"
    /\ bpc = "start"
    /\ bpc' = IF check_args(args) THEN "exit1" ELSE "checked"
    /\ errors' = IF check_args(args) THEN errors \cup {"args"} ELSE errors
    /\ UNCHANGED <<args, env, base_configs, cand_layers, config_idx, layer_idx,
                   unmodified_configs, updated_cfs_configs, updated_file_configs,
                   failed, loaded, applied, entry, succeeded, saves, requests,
                   component_ids, failed_components>>
    /\ UNCHANGED recVars
    /\ UNCHANGED matchVars
    /\ UNCHANGED waitVars
    /\ UNCHANGED calls

\* The services asked by the try block of main.
main_requests(a, e) ==
    (IF a.base_config /= None \/ a.base_query /= None THEN {"cfs"} ELSE {})
    \cup (IF a.base_config = None /\ a.base_query /= None THEN {"hsm"} ELSE {})
    \cup (IF Truthy(a.product) /\ ~get_cfs_configurations(a, e.cfs).error
          THEN {"catalog"} ELSE {})
    \cup (IF ~get_cfs_configurations(a, e.cfs).error
             /\ ~construct_layer(a, e, a.playbook).error
             /\ a.resolve_branches /\ Truthy(construct_layer(a, e, a.playbook).layer.branch)
          THEN {"vcs"} ELSE {})

\* The session and the try block of main: the base configurations, the layer,
\* and the resolution of its branch. A CFSConfigurationError is logged and the
\* process exits with 1. Without a base, open(args.base_file) is open(None),
\* a TypeError that is not caught. An empty --base-query is refused before
\* HSM is asked.
MainGetConfigsAndLayer ==
    /\ entry = "main"
    /\ bpc = "checked"
    /\ IF args.base_config = None /\ args.base_query /= None /\ ~Truthy(args.base_query)
       THEN /\ bpc' = "exit1"
            /\ errors' = errors \cup {"fetch"}
            /\ requests' = requests \cup {"session"}
            /\ UNCHANGED <<base_configs, cand_layers, loaded, applied>>
       ELSE IF ~base_given(args)
       THEN /\ bpc' = "raised"
            /\ errors' = errors \cup {"fetch"}
            /\ requests' = requests \cup {"session"}
            /\ UNCHANGED <<base_configs, cand_layers, loaded, applied>>
       ELSE /\ requests' = requests \cup {"session"} \cup main_requests(args, env)
            /\ IF \/ get_cfs_configurations(args, env.cfs).error
                  \/ construct_layer(args, env, args.playbook).error
               THEN /\ bpc' = "exit1"
                    /\ errors' = errors \cup {"fetch"}
                    /\ UNCHANGED <<base_configs, cand_layers, loaded, applied>>
               ELSE IF resolve_if_requested(args, env,
                                            construct_layer(args, env, args.playbook).layer).error
               THEN /\ bpc' = "exit1"
                    /\ errors' = errors \cup {"resolve"}
                    /\ UNCHANGED <<base_configs, cand_layers, loaded, applied>>
               ELSE /\ bpc' = "loop"
                    /\ base_configs' = get_cfs_configurations(args, env.cfs).configs
                    /\ cand_layers' =
                          <<resolve_if_requested(
                                args, env, construct_layer(args, env, args.playbook).layer).layer>>
                    /\ loaded' = get_cfs_configurations(args, env.cfs).configs
                    /\ applied' = [k \in DOMAIN get_cfs_configurations(args, env.cfs).configs
                                      |-> <<>>]
                    /\ UNCHANGED errors
    /\ UNCHANGED <<args, env, config_idx, layer_idx, unmodified_configs,
                   updated_cfs_configs, updated_file_configs, failed,
                   entry, succeeded, saves, component_ids, failed_components>>
    /\ UNCHANGED recVars
    /\ UNCHANGED matchVars
    /\ UNCHANGED waitVars
    /\ UNCHANGED calls

\* The body of `for base_config in base_configs` of main: the layer is ensured;
\* an unchanged configuration is skipped; a changed one is saved, the save
\* succeeds or fails (ok), and the configuration goes to succeeded or failed.
\* unmodified_configs is main's `skipped`.
MainConfig ==
    /\ entry = "main"
    /\ bpc = "loop"
    /\ config_idx <= Len(base_configs)
    /\ base_configs' =
          [base_configs EXCEPT
              ![config_idx] =
                  [name |-> @.name] @@
                  ensure_layer(@.layers, @.changed, cand_layers[1], args.state)]
    /\ applied' = [applied EXCEPT ![config_idx] = Append(@, cand_layers[1])]
    /\ \E ok \in BOOLEAN :
          IF ~base_configs'[config_idx].changed
          THEN /\ ok
               /\ unmodified_configs' = Append(unmodified_configs, config_idx)
               /\ UNCHANGED <<succeeded, failed, saves, requests>>
          ELSE /\ saves' = Append(saves, save_call(base_configs', config_idx, ok))
               /\ requests' = requests \cup {"save"}
               /\ IF save_cfs_configuration(args, base_configs'[config_idx], ok).error
                  THEN /\ failed' = Append(failed, config_idx)
                       /\ UNCHANGED <<succeeded, unmodified_configs>>
                  ELSE /\ succeeded' = Append(succeeded, config_idx)
                       /\ UNCHANGED <<failed, unmodified_configs>>
    /\ config_idx' = config_idx + 1
    /\ errors' = IF failed' /= failed THEN errors \cup {"save"} ELSE errors
    /\ UNCHANGED <<args, env, cand_layers, layer_idx, updated_cfs_configs,
                   updated_file_configs, loaded, entry, bpc,
                   component_ids, failed_components>>
    /\ UNCHANGED recVars
    /\ UNCHANGED matchVars
    /\ UNCHANGED waitVars
    /\ UNCHANGED calls

\* After the loop of main: the counts are logged; SystemExit(1) when a
\* configuration failed to save, else main returns.
MainReport ==
    /\ entry = "main"
    /\ bpc = "loop"
    /\ config_idx > Len(base_configs)
    /\ bpc' = IF failed /= <<>> THEN "exit1" ELSE "done"
    /\ UNCHANGED <<args, env, base_configs, cand_layers, config_idx, layer_idx,
                   unmodified_configs, updated_cfs_configs, updated_file_configs,
                   failed, loaded, applied, entry, succeeded, saves, requests,
                   component_ids, failed_components, errors>>
    /\ UNCHANGED recVars
    /\ UNCHANGED matchVars
    /\ UNCHANGED waitVars
    /\ UNCHANGED calls

MainNext == MainCheckArgs \/ MainGetConfigsAndLayer \/ MainConfig \/ MainReport

----------------------------------------------------------------------------
(* The runs of the entry points.                                           *)

RunsInit == UpdateConfigsInit \/ UpdateComponentsInit \/ MainInit \/ ActivationInit

RunsNext == UpdateConfigsNext \/ UpdateComponentsNext \/ MainNext \/ ActivationNext

SpecRuns == RunsInit /\ [][RunsNext]_vars

----------------------------------------------------------------------------
(* wait.py: wait_for_component_configuration polls the components until    *)
(* none of them is pending.                                                *)

\* The values of configurationStatus: the three wait.py names, and
\* 'unconfigured', which CFS reports for a component with nothing to apply.
Statuses == {"pending", "configured", "failed", "unconfigured"}

\* What the query of one component gives: its configurationStatus when it is
\* enabled, "disabled" when it is not, "error" when the query fails (APIError
\* or ValueError).
ComponentStates == Statuses \cup {"disabled", "error"}

\* get_components_by_status(cfs_client, component_ids), `answers` being what
\* CFS answers for each component.
get_components_by_status(ids, answers) ==
    [components_by_status |->
         [st \in Statuses |-> {c \in ids : answers[c] = st}],
     disabled_components |-> {c \in ids : answers[c] = "disabled"},
     error_components |-> {c \in ids : answers[c] = "error"}]

\* pending_components is components_by_status['pending'] itself: the loop
\* updates that set in place.
pending_components == components_by_status["pending"]

WaitInit ==
    /\ wait_component_ids \in SUBSET ComponentIds
    /\ cfs_components \in [wait_component_ids -> ComponentStates]
    /\ components_by_status = [st \in Statuses |-> {}]
    /\ disabled_components = {}
    /\ error_components = {}
    /\ queried = {}
    /\ observed = [c \in wait_component_ids |-> "none"]
    /\ wpc = "start"
    /\ args = NoBaseNoSave
    /\ env = NoBaseNoSave
    /\ entry = "wait"
    /\ StartOfRun

\* Up to the loop: the first query of every component; the disabled and the
\* unqueryable ones are logged and ignored.
WaitStart ==
    /\ wpc = "start"
    /\ components_by_status' =
          get_components_by_status(wait_component_ids, cfs_components).components_by_status
    /\ disabled_components' =
          get_components_by_status(wait_component_ids, cfs_components).disabled_components
    /\ error_components' =
          get_components_by_status(wait_component_ids, cfs_components).error_components
    /\ queried' = wait_component_ids
    /\ observed' = cfs_components
    /\ wpc' = "loop"
    /\ UNCHANGED <<wait_component_ids, cfs_components>>
    /\ UNCHANGED recVars
    /\ UNCHANGED matchVars
    /\ UNCHANGED batchVars

\* Mutant of WaitRound: every round queries all the components again, and the
\* pending set is those that report 'pending' now.
WaitRound_requeries_all ==
    /\ wpc = "loop"
    /\ pending_components /= {}
    /\ queried' = wait_component_ids
    /\ observed' = cfs_components
    /\ components_by_status' =
          [st \in Statuses |->
              IF st = "pending"
              THEN {c \in wait_component_ids : cfs_components[c] = "pending"}
              ELSE components_by_status[st] \cup
                   {c \in wait_component_ids : cfs_components[c] = st}]
    /\ wpc' = "loop"
    /\ UNCHANGED <<wait_component_ids, cfs_components, disabled_components,
                   error_components>>
    /\ UNCHANGED recVars
    /\ UNCHANGED matchVars
    /\ UNCHANGED batchVars

\* One turn of `while pending_components`: after the sleep the pending
\* components are queried; those with another status move to the set of that
\* status and leave the pending set; then, when a query failed,
\* error_components.extend(...) is called on a set, which has no extend: the
\* AttributeError ends the function; else the components now disabled leave
\* the pending set.
WaitRound ==
    /\ wpc = "loop"
    /\ pending_components /= {}
    /\ queried' = pending_components
    /\ observed' = [c \in wait_component_ids |->
                       IF c \in pending_components THEN cfs_components[c] ELSE observed[c]]
    /\ IF get_components_by_status(pending_components, cfs_components).error_components /= {}
       THEN /\ wpc' = "raised"
            /\ components_by_status' =
                  [st \in Statuses |->
                      IF st = "pending"
                      THEN {c \in pending_components :
                               cfs_components[c] \in {"pending", "disabled", "error"}}
                      ELSE components_by_status[st] \cup
                           {c \in pending_components : cfs_components[c] = st}]
       ELSE /\ wpc' = "loop"
            /\ components_by_status' =
                  [st \in Statuses |->
                      IF st = "pending"
                      THEN {c \in pending_components : cfs_components[c] = "pending"}
                      ELSE components_by_status[st] \cup
                           {c \in pending_components : cfs_components[c] = st}]
    /\ UNCHANGED <<wait_component_ids, cfs_components, disabled_components,
                   error_components>>
    /\ UNCHANGED recVars
    /\ UNCHANGED matchVars
    /\ UNCHANGED batchVars

\* Mutant of WaitReturn: the function returns before the pending set is empty.
WaitReturn_early ==
    /\ wpc = "loop"
    /\ wpc' = "returned"
    /\ UNCHANGED <<wait_component_ids, cfs_components, components_by_status,
                   disabled_components, error_components, queried, observed>>
    /\ UNCHANGED recVars
    /\ UNCHANGED matchVars
    /\ UNCHANGED batchVars

\* After the loop: the number of unqueryable components and the summary are
\* logged, and the function returns.
WaitReturn ==
    /\ wpc = "loop"
    /\ pending_components = {}
    /\ wpc' = "returned"
    /\ UNCHANGED <<wait_component_ids, cfs_components, components_by_status,
                   disabled_components, error_components, queried, observed>>
    /\ UNCHANGED recVars
    /\ UNCHANGED matchVars
    /\ UNCHANGED batchVars

\* CFS: while the function sleeps, a component changes its status, is
\* disabled or enabled, or becomes unqueryable or queryable.
CfsChange ==
    /\ wpc = "loop"
    /\ \E c \in wait_component_ids, v \in ComponentStates :
          /\ v /= cfs_components[c]
          /\ cfs_components' = [cfs_components EXCEPT ![c] = v]
    /\ UNCHANGED <<wait_component_ids, components_by_status, disabled_components,
                   error_components, queried, observed, wpc>>
    /\ UNCHANGED recVars
    /\ UNCHANGED matchVars
    /\ UNCHANGED batchVars

WaitNext == WaitStart \/ WaitRound \/ WaitReturn \/ CfsChange

SpecWait == WaitInit /\ [][WaitNext]_vars

----------------------------------------------------------------------------
(* Load, reconcile, save: update_configurations on one configuration of a  *)
(* file or of CFS whose layers carry the five properties, with values that *)
(* may be empty.                                                           *)

\* Layers as a file or CFS gives them: the two stored layers, one whose name is
\* the empty string, and one with a commit and a branch whose playbook is null.
PayloadLayers ==
    { StoredX, StoredOther,
      [cloneUrl |-> UrlB, commit |-> Commit111, name |-> <<>>, playbook |-> PlaybookY],
      [cloneUrl |-> UrlB, commit |-> Commit222, branch |-> BranchMain,
       playbook |-> None] }

RoundTripArgs ==
    {[product |-> ProductP, clone_url |-> None, git_commit |-> CommitLong,
      git_branch |-> None, playbooks |-> p, layer_name |-> None, state |-> st,
      resolve_branches |-> TRUE] @@ b :
        p \in {<<>>, <<PlaybookX>>}, st \in LayerState,
        b \in {[NoBaseNoSave EXCEPT !.base_file = FileF, !.save_suffix = SuffixS],
               [NoBaseNoSave EXCEPT !.base_config = ConfigC, !.save = TRUE]}}

\* The product catalog has the product; the file or CFS gives one
\* configuration.
RoundTripEnvs(a) ==
    {[product |-> [error |-> FALSE, clone_url |-> UrlCatalog, commit |-> Commit111],
      refs |-> [error |-> FALSE, commit |-> Commit222], now |-> Timestamp,
      cfs |-> [error |-> FALSE,
               data |-> <<IF Truthy(a.base_config)
                          THEN [name |-> a.base_config, layers |-> l]
                          ELSE [layers |-> l]>>]] :
        l \in SeqsUpTo(PayloadLayers, MaxLayers)}

RoundTripInit ==
    /\ args \in RoundTripArgs
    /\ env \in RoundTripEnvs(args)
    /\ entry = "update-configs"
    /\ StartOfRun
    /\ WaitOff

SpecRoundTrip == RoundTripInit /\ [][BatchNext]_vars

----------------------------------------------------------------------------
(* Branch resolution against a VCS whose answer may differ from one call   *)
(* to the next: the branch moves, the server goes away or comes back.      *)

\* The VCS changes its answer before the resolution of the next layer.
VcsChange ==
    /\ entry = "update-configs"
    /\ bpc = "loop"
    /\ layer_idx <= Len(cand_layers)
    /\ args.resolve_branches
    /\ Truthy(cand_layers[layer_idx].branch)
    /\ \E r \in RefsAnswers(args) \ {env.refs} : env' = [env EXCEPT !.refs = r]
    /\ UNCHANGED <<args, base_configs, cand_layers, config_idx, layer_idx,
                   unmodified_configs, updated_cfs_configs, updated_file_configs,
                   failed, loaded, applied, bpc, entry, succeeded, saves, requests,
                   component_ids, failed_components, errors>>
    /\ UNCHANGED recVars
    /\ UNCHANGED matchVars
    /\ UNCHANGED waitVars
    /\ UNCHANGED calls

ResolveNext == BatchNext \/ VcsChange

\* The runs of update_configurations whose layers are named by construct_name.
ResolveInit ==
    /\ BatchInit
    /\ args.layer_name = None

SpecResolve == ResolveInit /\ [][ResolveNext]_vars

----------------------------------------------------------------------------
(* check_args on every argument set the update-configs parser lets         *)
(* through.                                                                *)

EnabledFalse == <<"False">>

\* The mutually exclusive group of the base options: at most one of them.
ParsedBases ==
    { NoBaseNoSave,
      [NoBaseNoSave EXCEPT !.base_config = ConfigC],
      [NoBaseNoSave EXCEPT !.base_file = FileF],
      [NoBaseNoSave EXCEPT !.base_query = QueryQ] }

\* The required mutually exclusive group of the save options: exactly one.
ParsedSaves(b) ==
    { [b EXCEPT !.save = TRUE],
      [b EXCEPT !.save_suffix = SuffixS],
      [b EXCEPT !.save_to_cfs = ConfigC],
      [b EXCEPT !.save_to_file = FileF] }

\* The required group of --product and --clone-url, and the group of
\* --git-branch and --git-commit: exactly one of the first two, at most one
\* of the others.
ParsedRepos ==
    {[product |-> pu[1], clone_url |-> pu[2], git_commit |-> r[1], git_branch |-> r[2]] :
        pu \in {<<ProductP, None>>, <<None, UrlRepo>>},
        r \in {<<None, None>>, <<CommitLong, None>>, <<None, BranchMain>>}}

\* The assign and apply options; --enable and --disable exclude each other.
ParsedApplies ==
    {[NoApply EXCEPT !.assign_to_xnames = x, !.assign_to_query = q, !.clear_state = cs,
                     !.clear_error = ce, !.enabled = en] :
        x \in {None, <<"1">>}, q \in {None, QueryQ}, cs \in BOOLEAN, ce \in BOOLEAN,
        en \in {None, EnabledTrue, EnabledFalse}}

ParsedArgs ==
    {r @@ bs @@ ap : r \in ParsedRepos, bs \in UNION {ParsedSaves(b) : b \in ParsedBases},
                     ap \in ParsedApplies}

CheckInit ==
    /\ args \in ParsedArgs
    /\ env = NoBaseNoSave
    /\ entry = "check-args"
    /\ StartOfRun
    /\ WaitOff

\* check_args(args): it returns, or it raises ValueError.
CheckArgs ==
    /\ entry = "check-args"
    /\ bpc = "start"
    /\ bpc' = IF check_args(args) THEN "raised" ELSE "returned"
    /\ errors' = IF check_args(args) THEN errors \cup {"args"} ELSE errors
    /\ UNCHANGED <<args, env, base_configs, cand_layers, config_idx, layer_idx,
                   unmodified_configs, updated_cfs_configs, updated_file_configs,
                   failed, loaded, applied, entry, succeeded, saves, requests,
                   component_ids, failed_components>>
    /\ UNCHANGED recVars
    /\ UNCHANGED matchVars
    /\ UNCHANGED waitVars
    /\ UNCHANGED calls

CheckNext == CheckArgs

SpecCheck == CheckInit /\ [][CheckNext]_vars


----------------------------------------------------------------------------
(* Properties of ensure_layer, stated over the call that was made last:    *)
(* its arguments layer and state, the configuration before it (old_layers, *)
(* old_changed) and after it (layers, changed).                            *)

Called == pc = "ensured"

\* The positions of the layers of the configuration before the call that match
\* the candidate.
MatchIdx == {i \in DOMAIN old_layers : matches(layer, old_layers[i])}

NotMatching(existing_layer) == ~matches(layer, existing_layer)

Attrs == {"clone_url", "name", "playbook", "commit", "branch"}

Differs(existing_layer, new_layer) ==
    \E a \in Attrs : existing_layer[a] /= new_layer[a]

\* C1 as stated: after ensure_layer(L, PRESENT) has been applied twice in a row,
\* changed is false and the layer sequence is the one the first application left.
C1_Original ==
    (Called /\ repeat /\ state = PRESENT) =>
        (changed = FALSE /\ layers = old_layers)

\* C1, amended: the second of two consecutive ensure_layer(L, PRESENT) calls
\* leaves the layer sequence as the first left it and does not set changed: the
\* flag keeps the value it had after the first call.
C1_Idempotent ==
    (Called /\ repeat /\ state = PRESENT) =>
        (layers = old_layers /\ changed = old_changed)

\* The second application of a candidate that the first application appended.
C1_Witness ==
    /\ Called /\ repeat /\ state = PRESENT
    /\ old_changed
    /\ Len(layers) = 2
    /\ layers[2] = layer
    /\ layers[1] /= layer

\* C2: with PRESENT every matching layer is replaced by the candidate at its own
\* index, every other layer keeps its index and value, and when a layer matches
\* the length is unchanged (the candidate is not appended as well).
C2_InPlace ==
    (Called /\ state = PRESENT) =>
        /\ Len(layers) >= Len(old_layers)
        /\ \A i \in DOMAIN old_layers :
              layers[i] = IF i \in MatchIdx THEN layer ELSE old_layers[i]
        /\ (MatchIdx /= {} => Len(layers) = Len(old_layers))

\* [A, B, D] with the candidate matching B alone and differing from it.
C2_Witness ==
    /\ Called /\ state = PRESENT
    /\ Len(old_layers) = 3
    /\ MatchIdx = {2}
    /\ old_layers[2] /= layer
    /\ old_layers[1] /= old_layers[3]
    /\ layers = <<old_layers[1], layer, old_layers[3]>>

\* C3: with ABSENT the result is the subsequence of the layers that do not match
\* the candidate, in their order, and changed is true when a layer was dropped.
C3_Removal ==
    (Called /\ state = ABSENT) =>
        /\ layers = SelectSeq(old_layers, NotMatching)
        /\ (Len(layers) < Len(old_layers) => changed)

\* [A, B, D] with the candidate matching B alone.
C3_Witness ==
    /\ Called /\ state = ABSENT
    /\ Len(old_layers) = 3
    /\ MatchIdx = {2}
    /\ ~old_changed
    /\ layers = <<old_layers[1], old_layers[3]>>
    /\ changed

\* C4: with PRESENT and no matching layer the result is the previous sequence
\* with the candidate appended last, and changed is true.
C4_Append ==
    (Called /\ state = PRESENT /\ MatchIdx = {}) =>
        (layers = Append(old_layers, layer) /\ changed)

C4_Witness ==
    /\ Called /\ state = PRESENT /\ MatchIdx = {}
    /\ Len(old_layers) = 2
    /\ ~old_changed
    /\ layers[3] = layer
    /\ changed

\* C5: with ABSENT and no matching layer the layer sequence and the changed flag
\* are left as they were; so is every repetition of an ABSENT call.
C5_AbsentMiss ==
    /\ (Called /\ state = ABSENT /\ MatchIdx = {}) =>
          (layers = old_layers /\ changed = old_changed)
    /\ (Called /\ state = ABSENT /\ repeat) =>
          (MatchIdx = {} /\ layers = old_layers /\ changed = old_changed)

\* ABSENT against a configuration with layers, none matching, and a clear flag.
C5_Witness ==
    /\ Called /\ state = ABSENT /\ MatchIdx = {}
    /\ old_layers /= <<>>
    /\ ~old_changed
    /\ ~changed
    /\ layers = old_layers

\* C6: when PRESENT finds a match, the call sets changed exactly when some
\* matching layer differs from the candidate in one of the five properties, and
\* the revision stored in the matching slots is the candidate's.
C6_FieldDiff ==
    (Called /\ state = PRESENT /\ MatchIdx /= {}) =>
        /\ changed = (old_changed \/ \E i \in MatchIdx : Differs(old_layers[i], layer))
        /\ \A i \in MatchIdx :
              layers[i].commit = layer.commit /\ layers[i].branch = layer.branch

\* Existing commit 111, candidate commit 222, nothing else different.
C6_Witness ==
    /\ Called /\ state = PRESENT
    /\ ~old_changed
    /\ \E i \in MatchIdx :
          /\ old_layers[i].commit = Commit111
          /\ layer.commit = Commit222
          /\ \A a \in Attrs \ {"commit"} : old_layers[i][a] = layer[a]
          /\ layers[i].commit = Commit222
    /\ changed

\* C8: an update replaces the whole layer: every attribute of the stored layer
\* is the candidate's, also where the candidate's is None and the existing
\* layer's was set.
C8_FullReplacement ==
    (Called /\ state = PRESENT) =>
        \A i \in MatchIdx : \A a \in Attrs : layers[i][a] = layer[a]

\* An existing layer with a name is replaced by a candidate without one.
C8_Witness ==
    /\ Called /\ state = PRESENT
    /\ \E i \in MatchIdx :
          /\ old_layers[i].name = NameA
          /\ layer.name = None
          /\ layers[i].name = None

\* C9: duplicate slots are handled permissively: with two or more matching
\* layers the call is possible, PRESENT replaces every one of them at its index,
\* ABSENT removes every one of them, and the other layers stay in place and order.
C9_Duplicates ==
    /\ (Called /\ Cardinality(MatchIdx) >= 2 /\ state = PRESENT) =>
          /\ Len(layers) = Len(old_layers)
          /\ \A i \in DOMAIN old_layers :
                layers[i] = IF i \in MatchIdx THEN layer ELSE old_layers[i]
    /\ (Called /\ Cardinality(MatchIdx) >= 2 /\ state = ABSENT) =>
          /\ Len(layers) = Len(old_layers) - Cardinality(MatchIdx)
          /\ \A i \in DOMAIN layers : NotMatching(layers[i])
          /\ layers = SelectSeq(old_layers, NotMatching)
    /\ \A l \in Layers, st \in LayerState :
          (Cardinality({i \in DOMAIN layers : matches(l, layers[i])}) >= 2)
              => ENABLED EnsureLayerCall(l, st)

\* [E1, N, E2] with two different layers matching the candidate.
C9_Witness ==
    /\ Called /\ state = PRESENT
    /\ Len(old_layers) = 3
    /\ MatchIdx = {1, 3}
    /\ old_layers[1] /= old_layers[3]
    /\ old_layers[1] /= layer /\ old_layers[3] /= layer
    /\ layers = <<layer, old_layers[2], layer>>

----------------------------------------------------------------------------
(* Properties of the matcher.                                              *)

\* The layers that have the URL path and the playbook of layer l, under every
\* clone URL, name, commit and branch of the matcher runs.
SameSlot(l) ==
    {l2 \in MatchLayers :
        /\ ParsedUrls[l2.clone_url].path = ParsedUrls[l.clone_url].path
        /\ l2.playbook = l.playbook}

\* C7: a.matches(b) is true exactly when the URL paths of the two clone URLs are
\* equal, verbatim, and the playbooks are equal; the result is the same for
\* every scheme, host, name, commit and branch of either layer; the call
\* changes neither layer.
C7_Matcher ==
    [][(mpc = "args" /\ mpc' = "returned") =>
          /\ UNCHANGED <<self_layer, other_layer>>
          /\ ~isinstance_layer(other_layer) => (result' = FALSE)
          /\ isinstance_layer(other_layer) =>
                /\ result' = (/\ urlparse(self_layer.clone_url).path
                                    = urlparse(other_layer.clone_url).path
                              /\ self_layer.playbook = other_layer.playbook)
                /\ \A a2 \in SameSlot(self_layer) : matches(a2, other_layer) = result'
                /\ \A b2 \in SameSlot(other_layer) : matches(self_layer, b2) = result'
                /\ (/\ self_layer.clone_url = UrlA
                    /\ other_layer.clone_url \in {UrlA2, UrlBare, UrlQuery}
                    /\ self_layer.playbook = other_layer.playbook) => (result' = TRUE)
                /\ (/\ self_layer.clone_url = UrlA
                    /\ other_layer.clone_url \in {UrlB, UrlUpper, UrlSlash, UrlGit, UrlScp})
                        => (result' = FALSE)
                /\ (self_layer.playbook = PlaybookX /\ other_layer.playbook \in {PlaybookXUpper, None})
                        => (result' = FALSE)
      ]_vars

\* Two layers that differ in scheme, host, name, commit and branch and match.
C7_Witness ==
    /\ mpc = "returned"
    /\ result = TRUE
    /\ self_layer.clone_url = UrlA /\ other_layer.clone_url = UrlA2
    /\ self_layer.name /= other_layer.name
    /\ self_layer.commit /= other_layer.commit
    /\ self_layer.branch /= other_layer.branch
    /\ self_layer.playbook = None /\ other_layer.playbook = None

----------------------------------------------------------------------------
(* Properties of the per-candidate loop of update_configurations, stated   *)
(* over the configurations as fetched (loaded), the layers passed to       *)
(* ensure_layer for each of them so far (applied) and the configurations   *)
(* as they are now (base_configs).                                         *)

\* The playbooks of the candidates in the order of the --playbook options; one
\* candidate with no playbook without the option.
GivenPlaybooks == IF args.playbooks = <<>> THEN <<None>> ELSE args.playbooks

\* The inner loop has run to its end for configuration c.
CandidatesDone(c) == c < config_idx \/ bpc \in {"report", "returned", "exit1"}

\* ensure_layer with each layer of ls in turn, the first against configuration
\* c and each next one against what the one before it left.
RECURSIVE Reconciled(_, _, _)
Reconciled(c, ls, st) ==
    IF Len(ls) = 0 THEN [layers |-> c.layers, changed |-> c.changed]
    ELSE Reconciled(ensure_layer(c.layers, c.changed, Head(ls), st), Tail(ls), st)

\* C10: with several candidates in one run (one per --playbook), ensure_layer
\* is applied to each configuration once per candidate, in the order the
\* candidates were given, each application against the layers the one before
\* it left; and an empty configuration with the candidates of playbooks x.yml
\* and y.yml and state present ends as the two layers [x-layer, y-layer] with
\* changed true.
C10_Batch ==
    \A c \in DOMAIN base_configs :
        /\ Len(applied[c]) <= Len(GivenPlaybooks)
        /\ CandidatesDone(c) => Len(applied[c]) = Len(GivenPlaybooks)
        /\ c > config_idx => applied[c] = <<>>
        /\ \A k \in DOMAIN applied[c] :
              /\ applied[c][k] = cand_layers[k]
              /\ applied[c][k].playbook = GivenPlaybooks[k]
        /\ [layers |-> base_configs[c].layers, changed |-> base_configs[c].changed]
              = Reconciled(loaded[c], applied[c], args.state)
        /\ ( /\ CandidatesDone(c)
             /\ loaded[c].layers = <<>>
             /\ args.playbooks = <<PlaybookX, PlaybookY>>
             /\ args.state = PRESENT )
           => /\ Len(base_configs[c].layers) = 2
              /\ base_configs[c].layers = cand_layers
              /\ base_configs[c].layers[1].playbook = PlaybookX
              /\ base_configs[c].layers[2].playbook = PlaybookY
              /\ base_configs[c].changed

\* A run without a base, with --playbook x.yml --playbook y.yml and state
\* present, has returned with the two layers in its configuration.
C10_Witness ==
    /\ bpc = "returned"
    /\ ~base_given(args)
    /\ args.playbooks = <<PlaybookX, PlaybookY>>
    /\ args.state = PRESENT
    /\ loaded[1].layers = <<>>
    /\ Len(base_configs[1].layers) = 2
    /\ base_configs[1].layers[1].playbook = PlaybookX
    /\ base_configs[1].layers[2].playbook = PlaybookY
    /\ base_configs[1].changed

----------------------------------------------------------------------------
(* Properties of the changed flag over a sequence of ensure_layer calls.   *)

\* C11: on a configuration constructed with changed false, after any sequence
\* of ensure_layer calls changed is true exactly when some call of the
\* sequence left other layers than it found (added, removed or replaced a
\* layer); a call never sets it back to false.
C11_ChangedIsOr ==
    /\ pc = "loaded" => ~changed
    /\ pc \in {"loaded", "ensured"} => (changed = modified)
    /\ Called => (old_changed => changed)
    /\ Called => (changed = (old_changed \/ layers /= old_layers))

\* A call that found the configuration changed and left its layers as they were.
C11_Witness ==
    /\ Called
    /\ old_changed
    /\ layers = old_layers
    /\ changed
    /\ modified

\* The configurations of the failed save calls, in the order of the calls:
\* positions in update_configurations, names in ensure_product_layer.
FailedSaves ==
    [k \in DOMAIN SelectSeq(saves, LAMBDA c : ~c.ok) |->
        IF entry = "activation"
        THEN base_configs[SelectSeq(saves, LAMBDA c : ~c.ok)[k].config].name
        ELSE SelectSeq(saves, LAMBDA c : ~c.ok)[k].config]

\* The loop over the configurations is over.
LoopOver ==
    \/ bpc \in {"report", "returned", "affected", "applied", "assigned", "done"}
    \/ bpc = "exit1" /\ base_configs /= <<>>

\* C12: a failure to save a configuration does not end the batch. After a
\* failure the run is in the loop or past it, never ended by an exception, and
\* in the loop a step is always possible; once the loop is over, every
\* configuration was reconciled with every candidate layer, every changed
\* configuration had its one save call, and the failed list holds the
\* configurations of the failed calls, which are reported only then.
C12_PartialFailure ==
    /\ entry \in {"update-configs", "activation", "main"} =>
          /\ failed /= <<>> => bpc \in {"loop", "report", "exit1", "returned"}
          /\ bpc = "loop" => ENABLED RunsNext
          /\ failed = FailedSaves
          /\ LoopOver =>
                \A c \in DOMAIN base_configs :
                    /\ Len(applied[c]) = Len(cand_layers)
                    /\ base_configs[c].changed =>
                          Cardinality({k \in DOMAIN saves : saves[k].config = c}) = 1

C12_Witness ==
    /\ entry = "update-configs"
    /\ bpc = "exit1"
    /\ Len(saves) = 2
    /\ ~saves[1].ok
    /\ saves[2].ok
    /\ failed = <<1>>
    /\ base_configs[2].changed

\* The run was started from the command line and the process has ended:
\* main or the action returned ("done"), SystemExit(1) was raised, or an
\* exception was not caught, which ends a Python process with status 1.
Exited ==
    /\ entry \in {"update-configs", "update-components", "main"}
    /\ bpc \in {"done", "exit1", "raised"}

exit_status == IF bpc = "done" THEN 0 ELSE 1

C14_NoSaveOfUnchanged ==
    /\ \A k \in DOMAIN saves : saves[k].changed
    /\ LoopOver =>
          \A c \in DOMAIN base_configs :
              ~base_configs[c].changed => \A k \in DOMAIN saves : saves[k].config /= c

\* ensure_product_layer has saved a configuration that reconciliation left
\* unchanged.
C14_Witness ==
    /\ entry = "activation"
    /\ bpc = "returned"
    /\ \E k \in DOMAIN saves :
          /\ ~saves[k].changed
          /\ saves[k].ok
          /\ base_configs[saves[k].config] = loaded[saves[k].config]

\* C14 outside ensure_product_layer: update-configs and main make no save call
\* for an unchanged configuration.
C14_OutsideActivation == entry /= "activation" => C14_NoSaveOfUnchanged

\* C15: when check_args refuses the arguments of main, the run makes no
\* request at all (no session, no request to CFS, HSM, the product catalog or
\* git, no save), holds no configuration and no layer, and its only step is
\* the exit with status 1 for the refused arguments; a run of main that has
\* created the session has arguments that check_args accepts.
C15_ValidationFirst ==
    entry = "main" =>
        /\ check_args(args) =>
              /\ requests = {}
              /\ saves = <<>>
              /\ base_configs = <<>> /\ cand_layers = <<>>
              /\ bpc \in {"start", "exit1"}
              /\ bpc = "exit1" => errors = {"args"}
        /\ requests /= {} => ~check_args(args) /\ "session" \in requests

C15_Witness ==
    /\ entry = "main"
    /\ check_args(args)
    /\ args.base_query /= None
    /\ Truthy(args.save_to_cfs)
    /\ bpc = "exit1"
    /\ requests = {}

\* C16: the wait ends only by returning, with an empty pending set; while a
\* component is pending the function can only sleep and poll again, and it
\* returns as soon as none is.
C16_LoopExit ==
    wpc \in {"loop", "returned", "raised"} =>
        /\ wpc /= "loop" => wpc = "returned" /\ pending_components = {}
        /\ wpc = "loop" /\ pending_components /= {} =>
              ENABLED WaitRound /\ ~ENABLED WaitReturn
        /\ wpc = "loop" /\ pending_components = {} =>
              ENABLED WaitReturn /\ ~ENABLED WaitRound

\* The wait was ended by the exception while a component still reports
\* 'pending'.
C16_Witness ==
    /\ wpc = "raised"
    /\ \E c \in pending_components :
          observed[c] = "pending" /\ cfs_components[c] = "pending"

\* C17: a component whose query failed, in the first round or a later one, is
\* in the error set and out of the pending set, and the wait is not aborted.
C17_QueryErrorsNonFatal ==
    wpc \in {"loop", "returned", "raised"} =>
        \A c \in wait_component_ids :
            observed[c] = "error" =>
                /\ c \in error_components
                /\ c \notin pending_components
                /\ wpc /= "raised"

\* A query failed in a later round: the wait was aborted, and the component is
\* neither in the error set nor out of the pending set.
C17_Witness ==
    /\ wpc = "raised"
    /\ \E c \in wait_component_ids :
          /\ observed[c] = "error"
          /\ c \notin error_components
          /\ c \in pending_components

\* One step of the wait, as C18 has it.
PendingStep ==
    wpc \in {"loop", "returned", "raised"} =>
        /\ components_by_status'["pending"] \subseteq pending_components
        /\ \A c \in wait_component_ids \ pending_components : observed'[c] = observed[c]
        /\ wpc = "loop" /\ wpc' /= "returned" /\ cfs_components' = cfs_components =>
              /\ queried' = pending_components
              /\ \A c \in pending_components :
                    cfs_components[c] \in (Statuses \ {"pending"}) \cup {"disabled"} =>
                        c \notin components_by_status'["pending"]

\* C18: after the first query the pending set only shrinks; a component out of
\* it is not queried again; a round queries exactly the pending components,
\* and those it finds with another status, or disabled, are out of the pending
\* set after it.
C18_PendingOnlyShrinks == [][PendingStep]_vars

\* A component found disabled by the round that was aborted is still in the
\* pending set.
C18_Witness ==
    /\ wpc = "raised"
    /\ \E c \in pending_components : observed[c] = "disabled"

WaitNotAborted ==
    wpc \in {"loop", "returned"} =>
        /\ wpc = "returned" => pending_components = {}
        /\ wpc = "loop" /\ pending_components /= {} =>
              ENABLED WaitRound /\ ~ENABLED WaitReturn
        /\ \A c \in wait_component_ids :
              observed[c] = "error" => c \in error_components /\ c \notin pending_components

StepsNotAborted == [][wpc' /= "raised" => PendingStep]_vars

\* The layer data d matches no candidate that was ensured in configuration c:
\* reconciliation leaves such a layer untouched.
Untouched(c, d) ==
    \A j \in DOMAIN applied[c] : ~matches(applied[c][j], from_cfs(d))

\* The untouched layers of a sequence of layer data, in their order.
Kept(c, ds) == SelectSeq(ds, LAMBDA d : Untouched(c, d))

\* Layer data less the properties whose value is null or the empty string.
Filled(d) == [p \in {q \in DOMAIN d : Truthy(d[q])} |-> d[p]]

\* C20 as stated: every payload written has the single key 'layers', and its
\* untouched layers are the untouched layers that were loaded, with the same
\* properties and values, in the same order.
C20_Original ==
    \A k \in DOMAIN saves :
        /\ DOMAIN saves[k].payload = {"layers"}
        /\ Kept(saves[k].config, saves[k].payload.layers)
              = Kept(saves[k].config, env.cfs.data[saves[k].config].layers)

\* C20: every payload written has the single key 'layers', and its untouched
\* layers are the untouched layers that were loaded, in the same order, each
\* with the same values for its properties that are not null or empty, and
\* without the others.
C20_RoundTrip ==
    \A k \in DOMAIN saves :
        /\ DOMAIN saves[k].payload = {"layers"}
        /\ Kept(saves[k].config, saves[k].payload.layers)
              = [i \in DOMAIN Kept(saves[k].config, env.cfs.data[saves[k].config].layers) |->
                    Filled(Kept(saves[k].config, env.cfs.data[saves[k].config].layers)[i])]

C20_Witness ==
    /\ bpc = "returned"
    /\ Len(saves) = 1
    /\ saves[1].ok
    /\ Len(Kept(1, env.cfs.data[1].layers)) = 2
    /\ Len(env.cfs.data[1].layers) = 3
    /\ \E i \in DOMAIN env.cfs.data[1].layers :
          /\ Untouched(1, env.cfs.data[1].layers[i])
          /\ Filled(env.cfs.data[1].layers[i]) /= env.cfs.data[1].layers[i]

\* The layer objects of the run: the candidates and the layers of the
\* configurations.
LayerObjects ==
    Range(cand_layers) \cup UNION {Range(base_configs[c].layers) : c \in DOMAIN base_configs}

\* The layer of a payload matches a candidate that was ensured in configuration c.
IsCandidate(c, d) ==
    \E j \in DOMAIN applied[c] : matches(applied[c][j], from_cfs(d))

\* C21: every layer object has a commit or a branch; with branch resolution
\* enabled, every candidate in a payload that is written has a commit and no
\* branch, and so had the candidate when it was ensured; a run in which a
\* resolution failed has raised, with no save of the configuration it was
\* working on and no candidate with a branch in a configuration that was saved;
\* and a run that got through the loop has resolved every candidate.
C21_Revision ==
    /\ \A l \in LayerObjects : ~init_raises(l.clone_url, l.name, l.playbook, l.commit, l.branch)
    /\ entry = "update-configs" /\ args.resolve_branches =>
          /\ \A k \in DOMAIN saves :
                /\ \A i \in DOMAIN saves[k].payload.layers :
                      IsCandidate(saves[k].config, saves[k].payload.layers[i]) =>
                          /\ "commit" \in DOMAIN saves[k].payload.layers[i]
                          /\ "branch" \notin DOMAIN saves[k].payload.layers[i]
                /\ \A j \in DOMAIN applied[saves[k].config] :
                      /\ Truthy(applied[saves[k].config][j].commit)
                      /\ applied[saves[k].config][j].branch = None
          /\ "resolve" \in errors <=> bpc = "raised"
          /\ bpc = "raised" =>
                /\ \A k \in DOMAIN saves : saves[k].config /= config_idx
                /\ Truthy(cand_layers[layer_idx].branch)
                /\ \A k \in DOMAIN saves : \A j \in DOMAIN applied[saves[k].config] :
                      applied[saves[k].config][j] /= cand_layers[layer_idx]
          /\ bpc \in {"report", "returned", "exit1"} /\ cand_layers /= <<>> =>
                \A j \in DOMAIN cand_layers :
                    Truthy(cand_layers[j].commit) /\ cand_layers[j].branch = None

\* A save of a configuration with two candidates resolved from a branch, to
\* different commits.
C21_Witness ==
    /\ bpc = "returned"
    /\ args.resolve_branches
    /\ Truthy(args.git_branch)
    /\ args.state = PRESENT
    /\ Len(saves) >= 1
    /\ Len(applied[saves[1].config]) = 2
    /\ \E i \in DOMAIN saves[1].payload.layers :
          IsCandidate(saves[1].config, saves[1].payload.layers[i])

\* A run that raised on the second candidate after the first was resolved and
\* ensured.
C21_WitnessRaised ==
    /\ bpc = "raised"
    /\ layer_idx = 2
    /\ Len(applied[config_idx]) = 1

\* The result of the run with these arguments goes to CFS: what
\* save_cfs_configuration does with a changed configuration.
SavedToCfs(a) ==
    save_cfs_configuration(a, CFSConfiguration([name |-> ConfigC, layers |-> <<>>]),
                           TRUE).returned /= "none"

\* The five conditions of compatible update-configs arguments.
BaseOrNoInPlaceSave(a) ==
    \/ a.base_config /= None \/ a.base_file /= None \/ a.base_query /= None
    \/ ~a.save /\ a.save_suffix = None

QueryNotSavedElsewhere(a) ==
    ~(a.base_query /= None /\ (a.save_to_cfs /= None \/ a.save_to_file /= None))

CloneUrlHasRevision(a) ==
    a.clone_url /= None => a.git_branch /= None \/ a.git_commit /= None

AssignOnlyToSavedInCfs(a) ==
    a.assign_to_xnames /= None \/ a.assign_to_query /= None =>
        SavedToCfs(a) /\ a.base_query = None

ApplyOnlyToSavedInCfs(a) ==
    a.clear_state \/ a.clear_error \/ a.enabled \in {EnabledTrue, EnabledFalse} =>
        SavedToCfs(a)

\* C22: check_args returns when the five conditions hold of the arguments, and
\* raises ValueError when one of them does not.
C22_Compatibility ==
    entry = "check-args" /\ bpc /= "start" =>
        (bpc = "returned" <=>
            /\ BaseOrNoInPlaceSave(args)
            /\ QueryNotSavedElsewhere(args)
            /\ CloneUrlHasRevision(args)
            /\ AssignOnlyToSavedInCfs(args)
            /\ ApplyOnlyToSavedInCfs(args))

\* Arguments rejected for nothing but an assignment with --base-query.
C22_Witness ==
    /\ entry = "check-args"
    /\ bpc = "raised"
    /\ args.assign_to_query /= None
    /\ args.base_query /= None
    /\ SavedToCfs(args)
    /\ BaseOrNoInPlaceSave(args)
    /\ QueryNotSavedElsewhere(args)
    /\ CloneUrlHasRevision(args)
    /\ ApplyOnlyToSavedInCfs(args)

\* The configurations of the run were selected by an inventory query, and the
\* query was empty.
SelectedByEmptyQuery ==
    /\ loaded /= <<>>
    /\ \/ entry = "activation" /\ ~Truthy(args.hsm_query_params)
       \/ /\ entry \in {"main", "update-configs"}
          /\ args.base_config = None /\ args.base_query /= None
          /\ ~Truthy(args.base_query)

\* A run of main with an empty --base-query never asks HSM, holds and saves no
\* configuration, and its only step is an exit with status 1.
EmptyBaseQueryRejected ==
    entry = "main" /\ args.base_query = <<>> =>
        /\ requests \cap {"hsm", "cfs", "save"} = {}
        /\ saves = <<>> /\ base_configs = <<>>
        /\ bpc \in {"start", "exit1"}

\* C23 as stated: ensure_product_layer with empty HSM query parameters raises
\* 'HSM query parameters must be specified' with no session, no query of HSM or
\* CFS and no save; an empty --base-query is rejected before HSM is asked; no
\* run selects its configurations by an empty query.
C23_Original ==
    /\ entry = "activation" /\ ~Truthy(args.hsm_query_params) /\ bpc /= "start" =>
          /\ bpc = "raised"
          /\ errors = {"params"}
          /\ requests \cap {"session", "hsm", "cfs", "save"} = {}
          /\ saves = <<>> /\ base_configs = <<>>
    /\ EmptyBaseQueryRejected
    /\ ~SelectedByEmptyQuery

\* C23: ensure_product_layer with empty HSM query parameters raises a
\* CFSConfigurationError with no session, no query of HSM or CFS and no save:
\* the error of the product catalog when the product layer cannot be built,
\* which comes first, and 'HSM query parameters must be specified' otherwise;
\* an empty --base-query is rejected before HSM is asked; no run selects its
\* configurations by an empty query.
C23_EmptyQuery ==
    /\ entry = "activation" /\ ~Truthy(args.hsm_query_params) /\ bpc /= "start" =>
          /\ bpc = "raised"
          /\ errors = IF product_layer(args, env).error THEN {"catalog"} ELSE {"params"}
          /\ requests = {"catalog"}
          /\ saves = <<>> /\ base_configs = <<>>
    /\ EmptyBaseQueryRejected
    /\ ~SelectedByEmptyQuery

\* ensure_product_layer has raised for its empty query parameters, with CFS
\* ready to answer with configurations.
C23_Witness ==
    /\ entry = "activation"
    /\ args.hsm_query_params = <<>>
    /\ bpc = "raised"
    /\ errors = {"params"}
    /\ ~env.cfs.error /\ env.cfs.data /= <<>>

\* A run of main with an empty --base-query has exited.
C23_WitnessMain ==
    /\ entry = "main"
    /\ args.base_query = <<>>
    /\ bpc = "exit1"

\* The update_component calls of the run, in their order.
UpdateCalls == SelectSeq(calls, LAMBDA c : c.op = "update_component")

\* The components of the update_component calls that failed.
RefusedInCalls == UNION {UpdateCalls[k].ids : k \in {j \in DOMAIN UpdateCalls : ~UpdateCalls[j].ok}}

\* C24: once do_update_components is past update_cfs_components, every
\* component ID it found has had one update_component call, whatever the
\* outcome of the calls before it; the run has exited with status 1 exactly
\* when one of the calls failed, failed_components, which the error names, being
\* the components of the failed calls; and in no run is a wait called after a
\* failed update, the run being over with status 1.
C24_BatchUpdate ==
    /\ entry = "update-components" /\ bpc \in {"updated", "done", "exit1"} =>
          /\ Len(UpdateCalls) = Cardinality(component_ids)
          /\ UNION {UpdateCalls[k].ids : k \in DOMAIN UpdateCalls} = component_ids
          /\ failed_components = RefusedInCalls
          /\ bpc = "exit1" <=> RefusedInCalls /= {}
          /\ "update" \in errors <=> RefusedInCalls /= {}
    /\ entry \in {"update-components", "update-configs"} /\ RefusedInCalls /= {} =>
          /\ Exited /\ exit_status = 1
          /\ failed_components = RefusedInCalls
          /\ \A k \in DOMAIN calls : calls[k].op /= "wait"

\* do_update_components has exited after two updates, the first of which
\* failed and the second went through, with a wait requested.
C24_Witness ==
    /\ entry = "update-components"
    /\ bpc = "exit1"
    /\ args.wait
    /\ Len(calls) = 2
    /\ ~calls[1].ok
    /\ calls[2].ok

\* No two layers of the sequence match each other.
NoTwoMatch(ls) ==
    \A i, j \in DOMAIN ls : i /= j => ~matches(ls[i], ls[j])

NoDuplicateStep == NoTwoMatch(layers) => NoTwoMatch(layers')

\* C25: an ensure_layer call on a configuration in which no two layers match
\* each other leaves a configuration in which no two layers match each other,
\* whatever the candidate and the state; so a configuration that starts without
\* two matching layers never gets two.
C25_NoDuplicateSlot == [][NoDuplicateStep]_vars

\* A call with PRESENT has replaced the one layer that matched the candidate,
\* in a configuration of several layers none of which matched another.
C25_Witness ==
    /\ pc = "ensured"
    /\ state = PRESENT
    /\ Len(old_layers) >= 2
    /\ NoTwoMatch(old_layers)
    /\ \E i \in DOMAIN old_layers : matches(layer, old_layers[i]) /\ old_layers[i] /= layer
    /\ Len(layers) = Len(old_layers)

\* The layers of a sequence that do not match the candidate of the last call,
\* in their order.
Others(ls) == SelectSeq(ls, LAMBDA l : ~matches(layer, l))

\* C26: after ensure_layer(L, ABSENT) no layer matches L; after
\* ensure_layer(L, PRESENT) some layer matches L and every layer that matches L
\* is L; after either, the layers that do not match L are the ones from before
\* the call, as many and with the same values, in the same order.
C26_Postcondition ==
    pc = "ensured" =>
        /\ state = ABSENT => \A i \in DOMAIN layers : ~matches(layer, layers[i])
        /\ state = PRESENT =>
              /\ \E i \in DOMAIN layers : matches(layer, layers[i])
              /\ \A i \in DOMAIN layers : matches(layer, layers[i]) => layers[i] = layer
        /\ Others(layers) = Others(old_layers)

\* A call with ABSENT on a configuration that holds a layer of the candidate's
\* repository with another playbook, a layer that matches the candidate, and a
\* layer of another repository.
C26_Witness ==
    /\ pc = "ensured"
    /\ state = ABSENT
    /\ Len(old_layers) = 3
    /\ Len(layers) = 2
    /\ \E i \in DOMAIN layers :
          /\ repo_path(layers[i]) = repo_path(layer)
          /\ layers[i].playbook /= layer.playbook
    /\ \E i \in DOMAIN layers : repo_path(layers[i]) /= repo_path(layer)

\* The number of places a component is counted in: the sets of the statuses,
\* the disabled set and the error set.
TimesCounted(c) ==
    Cardinality({st \in Statuses : c \in components_by_status[st]})
    + (IF c \in disabled_components THEN 1 ELSE 0)
    + (IF c \in error_components THEN 1 ELSE 0)

\* C27: after the first query, after every round of the loop and at return,
\* every waited component is in exactly one of the sets of the statuses, the
\* disabled set and the error set.
C27_Accounting ==
    entry = "wait" /\ wpc \in {"loop", "returned"} =>
        \A c \in wait_component_ids : TimesCounted(c) = 1

\* No component is counted twice, also when the wait was ended by an error.
C27_NotTwice ==
    entry = "wait" => \A c \in wait_component_ids : TimesCounted(c) <= 1

\* The wait has returned, no query ever failed, and a component that was
\* pending and then found disabled is counted nowhere.
C27_Witness ==
    /\ entry = "wait"
    /\ wpc = "returned"
    /\ error_components = {}
    /\ \E c \in wait_component_ids :
          /\ observed[c] = "disabled"
          /\ TimesCounted(c) = 0

----------------------------------------------------------------------------
(* update-configs with --base-query: get_configurations_for_components     *)
(* asks HSM for the components of the query and CFS for the desiredConfig  *)
(* of each, and loads each configuration named.                            *)

ConfigNames == {ConfigName(k) : k \in 1..MaxConfigs}

\* What HSM answers the query with: an APIError, or the xnames.
HsmAnswers ==
    {[error |-> TRUE, xnames |-> <<>>]} \cup
    {[error |-> FALSE, xnames |-> [k \in 1..n |-> ToString(k)]] : n \in 0..MaxComponents}

\* What CFS answers for one component: an APIError or bad JSON, or data
\* without desiredConfig (None), with an empty one or with a name.
DesiredAnswers ==
    {[error |-> TRUE, desiredConfig |-> None]} \cup
    {[error |-> FALSE, desiredConfig |-> d] : d \in {None, <<>>} \cup ConfigNames}

\* What CFS answers for one configuration: an APIError, or its data.
StoredAnswers ==
    {[error |-> TRUE, layers |-> <<>>], [error |-> FALSE, layers |-> <<StoredOther>>]}

\* Mutant of get_configurations_for_components: the names are collected in a
\* list, one per component.
get_configurations_for_components_per_component(hsm, components, stored, order) ==
    IF hsm.error THEN [error |-> TRUE, data |-> <<>>]
    ELSE IF \E k \in DOMAIN SelectSeq(hsm.xnames, LAMBDA x : ~components[x].error /\ Truthy(components[x].desiredConfig)) :
               stored[components[SelectSeq(hsm.xnames, LAMBDA x : ~components[x].error /\ Truthy(components[x].desiredConfig))[k]].desiredConfig].error
    THEN [error |-> TRUE, data |-> <<>>]
    ELSE [error |-> FALSE,
          data |-> [k \in DOMAIN SelectSeq(hsm.xnames, LAMBDA x : ~components[x].error /\ Truthy(components[x].desiredConfig)) |->
                      [name |-> components[SelectSeq(hsm.xnames, LAMBDA x : ~components[x].error /\ Truthy(components[x].desiredConfig))[k]].desiredConfig,
                       layers |-> stored[components[SelectSeq(hsm.xnames, LAMBDA x : ~components[x].error /\ Truthy(components[x].desiredConfig))[k]].desiredConfig].layers]]]

\* desired_config_names at the end of `for xname in target_xnames`: a
\* component whose query fails, or without a desiredConfig, adds nothing.
desired_config_names(hsm, components) ==
    {components[hsm.xnames[k]].desiredConfig :
        k \in {i \in DOMAIN hsm.xnames :
                  /\ ~components[hsm.xnames[i]].error
                  /\ Truthy(components[hsm.xnames[i]].desiredConfig)}}

\* CFSClient.get_configurations_for_components. `order` is the order the set
\* of names is iterated in. An APIError of HSM, or of CFS for a
\* configuration, is the function's.
get_configurations_for_components(hsm, components, stored, order) ==
    IF hsm.error THEN [error |-> TRUE, data |-> <<>>]
    ELSE IF \E k \in DOMAIN order : stored[order[k]].error
    THEN [error |-> TRUE, data |-> <<>>]
    ELSE [error |-> FALSE,
          data |-> [k \in DOMAIN order |->
                      [name |-> order[k], layers |-> stored[order[k]].layers]]]

\* A product layer, one playbook, and the two save options --base-query
\* goes with.
QueryArgs ==
    {a \in BatchArgs :
        /\ Truthy(a.base_query)
        /\ a.product = ProductP
        /\ a.git_commit = None /\ a.git_branch = None
        /\ a.playbooks = <<PlaybookX>>
        /\ a.layer_name = None
        /\ a.state = PRESENT
        /\ a.resolve_branches}

QueryInit ==
    /\ args \in QueryArgs
    /\ env \in {[product |-> p, refs |-> r, now |-> Timestamp,
                 cfs |-> [error |-> FALSE, data |-> <<>>],
                 hsm |-> h, components |-> c, stored |-> s] :
                   p \in ProductAnswers(args), r \in RefsAnswers(args),
                   h \in HsmAnswers, c \in [ComponentIds -> DesiredAnswers],
                   s \in [ConfigNames -> StoredAnswers]}
    /\ entry = "update-configs"
    /\ StartOfRun
    /\ WaitOff

\* The try block of update_configurations with --base-query.
QueryConfigsAndLayers ==
    /\ entry = "update-configs"
    /\ bpc = "start"
    /\ \E order \in Orders(desired_config_names(env.hsm, env.components)) :
          IF \/ get_cfs_configurations(args, get_configurations_for_components(
                     env.hsm, env.components, env.stored, order)).error
             \/ construct_layers(args, env).error
          THEN /\ bpc' = "exit1"
               /\ UNCHANGED <<base_configs, cand_layers, loaded, applied>>
          ELSE /\ bpc' = "loop"
               /\ base_configs' = get_cfs_configurations(args,
                      get_configurations_for_components(
                          env.hsm, env.components, env.stored, order)).configs
               /\ cand_layers' = construct_layers(args, env).layers
               /\ loaded' = base_configs'
               /\ applied' = [k \in DOMAIN base_configs' |-> <<>>]
    /\ requests' = requests \cup {"session", "cfs", "hsm"}
                   \cup (IF bpc' = "loop" \/ construct_layers(args, env).error
                         THEN {"catalog"} ELSE {})
    /\ errors' = IF bpc' = "exit1" THEN errors \cup {"fetch"} ELSE errors
    /\ UNCHANGED <<args, env, config_idx, layer_idx, unmodified_configs,
                   updated_cfs_configs, updated_file_configs, failed,
                   entry, succeeded, saves, component_ids, failed_components>>
    /\ UNCHANGED recVars
    /\ UNCHANGED matchVars
    /\ UNCHANGED waitVars
    /\ UNCHANGED calls

QueryNext == QueryConfigsAndLayers \/ EnsureBatchLayer \/ FinishConfig \/ Report

SpecQuery == QueryInit /\ [][QueryNext]_vars

\* The configurations the run has handled: skipped as unchanged, saved, or
\* failed to save.
Handled ==
    unmodified_configs \o [k \in DOMAIN saves |-> saves[k].config]

\* C28: in a run with --base-query, once the configurations are fetched,
\* every desiredConfig name of a matching component whose query succeeded is
\* the name of exactly one configuration of the run and no other name is, and
\* no configuration is skipped or saved twice.
C28_OncePerRun ==
    entry = "update-configs" /\ bpc \in {"loop", "report", "returned"}
        /\ "hsm" \in DOMAIN env =>
        /\ \A i, j \in DOMAIN base_configs :
              base_configs[i].name = base_configs[j].name => i = j
        /\ {base_configs[i].name : i \in DOMAIN base_configs}
              = desired_config_names(env.hsm, env.components)
        /\ \A i, j \in DOMAIN Handled : Handled[i] = Handled[j] => i = j
        /\ \A i, j \in DOMAIN saves :
              base_configs[saves[i].config].name = base_configs[saves[j].config].name
                  => i = j

\* A run has returned in which two components share the one configuration,
\* which was saved.
C28_Witness ==
    /\ entry = "update-configs"
    /\ bpc = "returned"
    /\ "hsm" \in DOMAIN env
    /\ Len(env.hsm.xnames) >= 2
    /\ \A k \in DOMAIN env.hsm.xnames :
          /\ ~env.components[env.hsm.xnames[k]].error
          /\ env.components[env.hsm.xnames[k]].desiredConfig = ConfigName(1)
    /\ Len(base_configs) = 1
    /\ Len(saves) = 1

\* A run has returned with one configuration saved, while one matching
\* component could not be queried or has no desiredConfig.
C28_WitnessSkipped ==
    /\ entry = "update-configs"
    /\ bpc = "returned"
    /\ "hsm" \in DOMAIN env
    /\ Len(saves) = 1
    /\ \E k \in DOMAIN env.hsm.xnames :
          \/ env.components[env.hsm.xnames[k]].error
          \/ ~Truthy(env.components[env.hsm.xnames[k]].desiredConfig)

----------------------------------------------------------------------------
(* The configuration assigned by update-configs.                           *)

\* The name save_cfs_configuration saves a configuration to CFS under: the
\* configuration's own with --save, with the suffix with --save-suffix, and
\* the name given with --save-to-cfs.
save_target_name(a, cfs_config) ==
    IF a.save THEN cfs_config.name
    ELSE IF Truthy(a.save_suffix) THEN cfs_config.name \o a.save_suffix
    ELSE a.save_to_cfs

\* The update_component calls of the step.
NewCalls ==
    {calls'[k] : k \in (Len(calls) + 1)..Len(calls')}

\* The step is the assignment of a run that asked for one and reached it.
AssignmentStep ==
    /\ entry = "update-configs"
    /\ bpc = "applied"
    /\ assign_requested(args)
    /\ requests' /= requests

\* C29: at the assignment step of a run with --assign-to-xnames or
\* --assign-to-query the run has one configuration, and every component
\* updated by the step is given the name of the save target of the save
\* options, also when the configuration was unchanged and not saved.
C29_AssignedName ==
    [][AssignmentStep =>
          /\ Len(base_configs) = 1
          /\ \A c \in NewCalls :
                c.desired_config = save_target_name(args, loaded[1])]_vars

\* The same for the runs whose configuration was changed and saved.
C29_AssignedNameOfSaved ==
    [][AssignmentStep /\ updated_cfs_configs /= <<>> =>
          /\ Len(base_configs) = 1
          /\ \A c \in NewCalls :
                c.desired_config = save_target_name(args, loaded[1])]_vars

\* With an unchanged configuration the name assigned is the one of the base.
C29_AssignedNameOfUnchanged ==
    [][AssignmentStep /\ updated_cfs_configs = <<>> =>
          /\ Len(base_configs) = 1
          /\ \A c \in NewCalls : c.desired_config = loaded[1].name]_vars

\* A run with --save-suffix found its configuration unchanged, saved nothing
\* and has assigned the name of the base to a component.
C29_Witness ==
    /\ entry = "update-configs"
    /\ bpc = "assigned"
    /\ assign_requested(args)
    /\ Truthy(args.save_suffix)
    /\ saves = <<>>
    /\ unmodified_configs = <<1>>
    /\ \E k \in DOMAIN calls :
          /\ calls[k].desired_config = loaded[1].name
          /\ calls[k].desired_config /= save_target_name(args, loaded[1])

----------------------------------------------------------------------------
(* The order of the phases of update-configs, read from the histories of   *)
(* the save calls and of the update and wait calls.                        *)

\* The update_component call gives the component a configuration: a call of
\* the assignment.
Assigns(c) == c.op = "update_component" /\ c.desired_config /= None

\* C30: in an update-configs run no component is updated, assigned or waited
\* on while configurations are reconciled and saved; the updates of the
\* affected components come before the assignments, and the wait comes
\* last; after a failed save the run makes no such call and ends with
\* status 1; and the wait is entered only with --wait on a non-empty set of
\* components, the affected and the assigned ones.
C30_PhaseOrder ==
    entry = "update-configs" =>
        /\ bpc \in {"start", "loop", "report"} => calls = <<>>
        /\ calls /= <<>> =>
              /\ bpc \notin {"start", "loop", "report", "returned"}
              /\ \A k \in DOMAIN saves : saves[k].ok
              /\ Len(saves) + Len(unmodified_configs) = Len(base_configs)
        /\ failed /= <<>> =>
              /\ calls = <<>>
              /\ bpc \in {"loop", "report", "exit1"}
        /\ \A i, j \in DOMAIN calls :
              i < j /\ Assigns(calls[i]) => Assigns(calls[j]) \/ calls[j].op = "wait"
        /\ \A k \in DOMAIN calls :
              calls[k].op = "wait" =>
                  /\ k = Len(calls)
                  /\ bpc = "done"
                  /\ args.wait
                  /\ calls[k].ids /= {}
                  /\ calls[k].ids = component_ids
                  /\ \A i \in 1..(k - 1) : calls[i].ids \subseteq calls[k].ids

\* A run has saved its configuration, updated a component that uses it,
\* assigned the configuration and waited, in this order.
C30_Witness ==
    /\ entry = "update-configs"
    /\ bpc = "done"
    /\ saves /= <<>>
    /\ Len(calls) >= 3
    /\ calls[1].op = "update_component" /\ ~Assigns(calls[1])
    /\ Assigns(calls[Len(calls) - 1])
    /\ calls[Len(calls)].op = "wait"

\* A run failed to save a changed configuration and has ended with status 1
\* without a call for a component.
C30_WitnessFailedSave ==
    /\ entry = "update-configs"
    /\ bpc = "exit1"
    /\ failed /= <<>>
    /\ calls = <<>>

====
